---- MODULE Spec2Model ----
(***************************************************************************)
(* Shared configuration loading of the cybr SDK (package config):          *)
(* section merging (mergeSections), profile normalisation                  *)
(* (processConfigSections / processCredentialsSections) and profile        *)
(* resolution with source_profile chaining (setFromIniSections).           *)
(*                                                                         *)
(* Section and profile names are sequences of one-character strings so     *)
(* that prefix tests, prefix stripping, case folding and sorting are       *)
(* computed character by character.                                        *)
(***************************************************************************)
EXTENDS Integers, Sequences, FiniteSets, TLC

\* ------------------------------------------------------------------ bounds
\* Maximal number of files over both file lists of one load call.
MaxFiles == 3
\* Number of nested setFromIniSections calls after which the model stops
\* following links (the code itself has no such limit).
MaxDepth == 4

\* --------------------------------------------------------------- constants
profilePrefix == <<"p", "r", "o", "f", "i", "l", "e", " ">>
DefaultSharedConfigProfile == <<"d", "e", "f", "a", "u", "l", "t">>

sourceProfileKey == "source_profile"
usernameKey == "cybr_username"
passwordKey == "cybr_password"
sessionTokenKey == "cybr_session_token"
subdomainKey == "subdomain"
domainKey == "domain"

\* The string keys merged one by one, in the order of the code.
stringKeys == <<sourceProfileKey, domainKey, subdomainKey>>

\* ------------------------------------------------------------------ strings
\* The characters that occur in names, in byte order.
CharOrder == <<" ", "D", "a", "b", "c", "d", "e", "f", "i", "l", "o", "p", "r", "t", "u">>

Ord(c) == CHOOSE i \in 1..Len(CharOrder) : CharOrder[i] = c

\* strings.HasPrefix
HasPrefix(s, prefix) ==
    /\ Len(s) >= Len(prefix)
    /\ SubSeq(s, 1, Len(prefix)) = prefix

\* strings.TrimPrefix
TrimPrefix(s, prefix) ==
    IF HasPrefix(s, prefix) THEN SubSeq(s, Len(prefix) + 1, Len(s)) ELSE s

\* simple case folding of one character
FoldChar(c) == IF c = "D" THEN "d" ELSE c

\* strings.EqualFold
EqualFold(s, t) ==
    /\ Len(s) = Len(t)
    /\ \A i \in 1..Len(s) : FoldChar(s[i]) = FoldChar(t[i])

\* byte-wise lexicographic order of sort.Strings
RECURSIVE StrLess(_, _)
StrLess(s, t) ==
    IF s = <<>> THEN t # <<>>
    ELSE IF t = <<>> THEN FALSE
    ELSE IF s[1] = t[1] THEN StrLess(Tail(s), Tail(t))
    ELSE Ord(s[1]) < Ord(t[1])

\* ------------------------------------------------------- ini.Section(s)
\* A section table is a function from section names to sections; a section
\* is a record [Name, values, SourceFile, Errors, Logs].
NewSections == [n \in {} |-> 0]

HasSection(sections, name) == name \in DOMAIN sections

SetSection(sections, name, v) ==
    [n \in (DOMAIN sections) \cup {name} |-> IF n = name THEN v ELSE sections[n]]

DeleteSection(sections, name) ==
    [n \in (DOMAIN sections) \ {name} |-> sections[n]]

\* Sections.List: the section names, sorted.
RECURSIVE SortNames(_)
SortNames(S) ==
    IF S = {} THEN <<>>
    ELSE LET m == CHOOSE x \in S : \A y \in S \ {x} : StrLess(x, y)
         IN  <<m>> \o SortNames(S \ {m})

List(sections) == SortNames(DOMAIN sections)

\* Section.Has
Has(section, key) == key \in DOMAIN section.values

\* Section.String: the empty string for an absent key
String(section, key) == IF Has(section, key) THEN section.values[key] ELSE <<>>

\* Section.SourceFile[key]: the empty string for an absent key
SourceFileOf(section, key) ==
    IF key \in DOMAIN section.SourceFile THEN section.SourceFile[key] ELSE <<>>

\* Section.UpdateValue
UpdateValue(section, key, v) ==
    [section EXCEPT !.values =
        [k \in (DOMAIN section.values) \cup {key} |->
            IF k = key THEN v ELSE section.values[k]]]

\* Section.UpdateSourceFile
UpdateSourceFile(section, key, file) ==
    [section EXCEPT !.SourceFile =
        [k \in (DOMAIN section.SourceFile) \cup {key} |->
            IF k = key THEN file ELSE section.SourceFile[k]]]

\* ------------------------------------------------------------ mergeSections
newMergeKeyLogMessage(sectionName, key, dstSourceFile, srcSourceFile) ==
    [kind |-> "override", section |-> sectionName, key |-> key,
     prev |-> dstSourceFile, by |-> srcSourceFile, files |-> <<>>]

\* The message of processConfigSections and of processCredentialsSections
\* for a section that is dropped because of its name.
IgnoredLogMessage(sectionName) ==
    [kind |-> "ignored", section |-> sectionName, key |-> "",
     prev |-> <<>>, by |-> <<>>, files |-> <<>>]

PartialCredentialsError(sectionName) ==
    [kind |-> "partial credentials", profile |-> sectionName]

\* Variant of mergeStringKey in which a key the destination already has is
\* kept (first file wins).
mergeStringKey_KeepFirst(srcSection, dstSection, sectionName, key) ==
    IF Has(srcSection, key) /\ ~Has(dstSection, key)
    THEN UpdateSourceFile(UpdateValue(dstSection, key, String(srcSection, key)),
                          key, SourceFileOf(srcSection, key))
    ELSE dstSection

mergeStringKey(srcSection, dstSection, sectionName, key) ==
    IF Has(srcSection, key)
    THEN LET logged ==
                 IF Has(dstSection, key)
                 THEN [dstSection EXCEPT !.Logs = Append(@,
                          newMergeKeyLogMessage(sectionName, key,
                              SourceFileOf(dstSection, key),
                              SourceFileOf(srcSection, key)))]
                 ELSE dstSection
         IN  UpdateSourceFile(UpdateValue(logged, key, String(srcSection, key)),
                              key, SourceFileOf(srcSection, key))
    ELSE dstSection

\* Variant of flagPartial whose two tests are joined by "and", so that no
\* section is ever flagged.
flagPartial_Never(srcSection, sectionName) ==
    IF /\ (~Has(srcSection, usernameKey) /\ Has(srcSection, passwordKey))
       /\ (Has(srcSection, usernameKey) /\ ~Has(srcSection, passwordKey))
    THEN [srcSection EXCEPT !.Errors = Append(@, PartialCredentialsError(sectionName))]
    ELSE srcSection

\* The partial-credentials test appends an error to the source section.
flagPartial(srcSection, sectionName) ==
    IF \/ (~Has(srcSection, usernameKey) /\ Has(srcSection, passwordKey))
       \/ (Has(srcSection, usernameKey) /\ ~Has(srcSection, passwordKey))
    THEN [srcSection EXCEPT !.Errors = Append(@, PartialCredentialsError(sectionName))]
    ELSE srcSection

\* Variant of mergeCredentials that overwrites each member the source has,
\* whether or not the source has the other one.
mergeCredentials_MemberWise(srcSection, dstSection, sectionName) ==
    mergeStringKey(srcSection,
        mergeStringKey(srcSection,
            mergeStringKey(srcSection, dstSection, sectionName, usernameKey),
            sectionName, passwordKey),
        sectionName, sessionTokenKey)

\* The credential group of the source overwrites the one of the destination.
mergeCredentials(srcSection, dstSection, sectionName) ==
    IF Has(srcSection, usernameKey) /\ Has(srcSection, passwordKey)
    THEN LET logged ==
                 IF Has(dstSection, usernameKey)
                 THEN [dstSection EXCEPT !.Logs = Append(@,
                          newMergeKeyLogMessage(sectionName, usernameKey,
                              SourceFileOf(dstSection, usernameKey),
                              SourceFileOf(srcSection, usernameKey)))]
                 ELSE dstSection
             withUser == UpdateValue(logged, usernameKey, String(srcSection, usernameKey))
             withPass == UpdateValue(withUser, passwordKey, String(srcSection, passwordKey))
             withToken == mergeStringKey(srcSection, withPass, sectionName, sessionTokenKey)
         IN  UpdateSourceFile(
                 UpdateSourceFile(withToken, usernameKey, SourceFileOf(srcSection, usernameKey)),
                 passwordKey, SourceFileOf(srcSection, passwordKey))
    ELSE dstSection

RECURSIVE mergeStringKeys(_, _, _, _)
mergeStringKeys(srcSection, dstSection, sectionName, i) ==
    IF i > Len(stringKeys) THEN dstSection
    ELSE mergeStringKeys(srcSection,
             mergeStringKey(srcSection, dstSection, sectionName, stringKeys[i]),
             sectionName, i + 1)

\* Variant of mergeOneSection that appends the errors of the source section
\* to those of the destination section.
mergeOneSection_AppendErrors(dst, src, sectionName) ==
    LET srcSection == flagPartial(src[sectionName], sectionName)
    IN  IF ~HasSection(dst, sectionName)
        THEN SetSection(dst, sectionName, srcSection)
        ELSE LET dstSection == [dst[sectionName] EXCEPT !.Errors = @ \o srcSection.Errors]
                 withCreds == mergeCredentials(srcSection, dstSection, sectionName)
             IN  SetSection(dst, sectionName,
                     mergeStringKeys(srcSection, withCreds, sectionName, 1))

\* One iteration of the loop of mergeSections, for the section sectionName.
mergeOneSection(dst, src, sectionName) ==
    LET srcSection == flagPartial(src[sectionName], sectionName)
    IN  IF ~HasSection(dst, sectionName)
        THEN SetSection(dst, sectionName, srcSection)
        ELSE LET dstSection == [dst[sectionName] EXCEPT !.Errors = srcSection.Errors]
                 withCreds == mergeCredentials(srcSection, dstSection, sectionName)
             IN  SetSection(dst, sectionName,
                     mergeStringKeys(srcSection, withCreds, sectionName, 1))

RECURSIVE mergeSectionsFrom(_, _, _)
mergeSectionsFrom(dst, src, names) ==
    IF names = <<>> THEN dst
    ELSE mergeSectionsFrom(mergeOneSection(dst, src, Head(names)), src, Tail(names))

mergeSections(dst, src) == mergeSectionsFrom(dst, src, List(src))

\* ------------------------------------------------ profile normalisation
ReplaceLogMessage(newFiles, oldFiles) ==
    [kind |-> "replace", section |-> <<>>, key |-> "",
     prev |-> <<>>, by |-> <<>>, files |-> <<newFiles, oldFiles>>]

\* Variant of renameProfileSection that copies the section to its new name
\* and leaves the prefixed section in the table.
renameProfileSection_KeepOld(section, sections) ==
    LET newName == TrimPrefix(section, profilePrefix)
    IN  [name |-> newName,
         sections |-> SetSection(sections, newName,
                                 [sections[section] EXCEPT !.Name = newName])]

\* Returns the new name and the table in which the prefixed section has been
\* moved to its name without the prefix, replacing a section of that name.
renameProfileSection(section, sections) ==
    LET v == sections[section]
        deleted == DeleteSection(sections, section)
        newName == TrimPrefix(section, profilePrefix)
        vLogged == IF HasSection(deleted, newName)
                   THEN [v EXCEPT !.Logs = Append(@,
                            ReplaceLogMessage(v.SourceFile, deleted[newName].SourceFile))]
                   ELSE v
        cleared == IF HasSection(deleted, newName)
                   THEN DeleteSection(deleted, newName)
                   ELSE deleted
    IN  [name |-> newName,
         sections |-> SetSection(cleared, newName, [vLogged EXCEPT !.Name = newName])]

\* Variant of processConfigFrom that does not record the new names in
\* skipSections, so that a renamed section is examined again under its new name.
RECURSIVE processConfigFrom_NoSkip(_, _)
processConfigFrom_NoSkip(st, names) ==
    IF names = <<>> \/ st.err THEN st
    ELSE LET section == Head(names)
             next ==
                 IF ~HasSection(st.sections, section) THEN st
                 ELSE IF HasPrefix(section, profilePrefix)
                 THEN [st EXCEPT !.sections = renameProfileSection(section, @).sections]
                 ELSE IF EqualFold(section, DefaultSharedConfigProfile) THEN st
                 ELSE [st EXCEPT !.sections = DeleteSection(@, section)]
         IN  processConfigFrom_NoSkip(next, Tail(names))

\* Variant of processConfigFrom that files a section whose name equals
\* `default` up to letter case under the name `default`.
RECURSIVE processConfigFrom_FoldDefault(_, _)
processConfigFrom_FoldDefault(st, names) ==
    IF names = <<>> \/ st.err THEN st
    ELSE LET section == Head(names)
             next ==
                 IF section \in st.skipSections THEN st
                 ELSE IF HasPrefix(section, profilePrefix)
                 THEN IF ~HasSection(st.sections, section)
                      THEN [st EXCEPT !.err = TRUE]
                      ELSE LET r == renameProfileSection(section, st.sections)
                           IN  [st EXCEPT !.sections = r.sections,
                                          !.skipSections = @ \cup {r.name}]
                 ELSE IF EqualFold(section, DefaultSharedConfigProfile)
                 THEN [st EXCEPT !.sections =
                          SetSection(DeleteSection(@, section), DefaultSharedConfigProfile,
                                     [st.sections[section] EXCEPT
                                          !.Name = DefaultSharedConfigProfile])]
                 ELSE [st EXCEPT !.sections = DeleteSection(@, section)]
         IN  processConfigFrom_FoldDefault(next, Tail(names))

\* The loop of processConfigSections over the names listed at its start;
\* st = [sections, skipSections, err, logs], logs being the messages that
\* the loop hands to a logger.
RECURSIVE processConfigFrom(_, _)
processConfigFrom(st, names) ==
    IF names = <<>> \/ st.err THEN st
    ELSE LET section == Head(names)
             next ==
                 IF section \in st.skipSections THEN st
                 ELSE IF HasPrefix(section, profilePrefix)
                 THEN IF ~HasSection(st.sections, section)
                      THEN [st EXCEPT !.err = TRUE]
                      ELSE LET r == renameProfileSection(section, st.sections)
                           IN  [st EXCEPT !.sections = r.sections,
                                          !.skipSections = @ \cup {r.name}]
                 ELSE IF EqualFold(section, DefaultSharedConfigProfile) THEN st
                 ELSE [st EXCEPT !.sections = DeleteSection(@, section),
                                 !.logs = Append(@, IgnoredLogMessage(section))]
         IN  processConfigFrom(next, Tail(names))

processConfigSections(sections) ==
    processConfigFrom([sections |-> sections, skipSections |-> {}, err |-> FALSE,
                       logs |-> <<>>],
                      List(sections))

\* Variant of processCredentialsFrom that deletes no section.
processCredentialsFrom_KeepAll(sections, names) == sections

RECURSIVE processCredentialsFrom(_, _)
processCredentialsFrom(sections, names) ==
    IF names = <<>> THEN sections
    ELSE processCredentialsFrom(
             IF HasPrefix(Head(names), profilePrefix)
             THEN DeleteSection(sections, Head(names))
             ELSE sections,
             Tail(names))

processCredentialsSections(sections) ==
    processCredentialsFrom(sections, List(sections))

\* The messages that processCredentialsSections hands to a logger.
RECURSIVE processCredentialsLogs(_)
processCredentialsLogs(names) ==
    IF names = <<>> THEN <<>>
    ELSE (IF HasPrefix(Head(names), profilePrefix)
          THEN <<IgnoredLogMessage(Head(names))>>
          ELSE <<>>) \o processCredentialsLogs(Tail(names))

\* ------------------------------------------------------ errors and records
NoErr == [kind |-> "nil", Profile |-> <<>>, Err |-> <<>>]

SharedConfigProfileNotExistError(profile) ==
    [kind |-> "SharedConfigProfileNotExistError", Profile |-> profile, Err |-> <<>>]

SharedConfigLoadError(filename) ==
    [kind |-> "SharedConfigLoadError", Profile |-> <<>>, Err |-> <<>>,
     Filename |-> filename]

\* Err holds the wrapped error, or nothing.
SharedConfigLinkError(profile, wrapped) ==
    [kind |-> "SharedConfigLinkError", Profile |-> profile, Err |-> wrapped]

\* fmt.Errorf("error fetching config from profile, %v, %w", profile, err)
FetchError(profile, err) ==
    [kind |-> "error fetching config from profile", Profile |-> profile, Err |-> <<err>>]

\* fmt.Errorf("Error using profile: ...") with the text of the last section error
UsingProfileError(sectionError) ==
    [kind |-> "Error using profile", Profile |-> <<>>, Err |-> <<sectionError>>]

ParsingError ==
    [kind |-> "parsing error : could not find profile section name", Profile |-> <<>>, Err |-> <<>>]

CredentialTypeError ==
    [kind |-> "only one credential type may be specified per profile", Profile |-> <<>>, Err |-> <<>>]

\* cybr.Credentials{}
NoCredentials ==
    [Username |-> <<>>, Password |-> <<>>, SessionToken |-> <<>>, Source |-> <<>>]

\* Credentials.HasKeys
HasKeys(creds) == Len(creds.Username) > 0 /\ Len(creds.Password) > 0

\* SharedConfig{}; Source holds the linked record, or nothing.
ZeroSharedConfig ==
    [Profile |-> <<>>, Credentials |-> NoCredentials, SourceProfileName |-> <<>>,
     Source |-> <<>>, Subdomain |-> <<>>, Domain |-> <<>>]

\* updateString: the field keeps its value unless the key is present
updateString(dst, section, key) ==
    IF ~Has(section, key) THEN dst ELSE String(section, key)

\* Variant of setFromIniSection that never sets the credentials.
setFromIniSection_NoCredentials(c, profile, section) ==
    IF Len(section.Name) = 0 THEN [err |-> ParsingError, cfg |-> c]
    ELSE IF Len(section.Errors) # 0
    THEN [err |-> UsingProfileError(section.Errors[Len(section.Errors)]), cfg |-> c]
    ELSE [err |-> NoErr,
          cfg |-> [c EXCEPT !.Domain = updateString(@, section, domainKey),
                            !.Subdomain = updateString(@, section, subdomainKey),
                            !.SourceProfileName = updateString(@, section, sourceProfileKey)]]

setFromIniSection(c, profile, section) ==
    IF Len(section.Name) = 0 THEN [err |-> ParsingError, cfg |-> c]
    ELSE IF Len(section.Errors) # 0
    THEN [err |-> UsingProfileError(section.Errors[Len(section.Errors)]), cfg |-> c]
    ELSE LET creds == [Username |-> String(section, usernameKey),
                       Password |-> String(section, passwordKey),
                       SessionToken |-> <<>>,
                       Source |-> <<"SharedConfigCredentials: ",
                                    SourceFileOf(section, usernameKey)>>]
             c1 == [c EXCEPT !.Domain = updateString(@, section, domainKey),
                             !.Subdomain = updateString(@, section, subdomainKey),
                             !.SourceProfileName = updateString(@, section, sourceProfileKey)]
         IN  [err |-> NoErr,
              cfg |-> IF HasKeys(creds) THEN [c1 EXCEPT !.Credentials = creds] ELSE c1]

RECURSIVE CountTrue(_)
CountTrue(bs) == IF bs = <<>> THEN 0 ELSE (IF Head(bs) THEN 1 ELSE 0) + CountTrue(Tail(bs))

oneOrNone(bs) == CountTrue(bs) <= 1

validateCredentialType(c) ==
    IF ~oneOrNone(<<Len(c.SourceProfileName) # 0>>) THEN CredentialTypeError ELSE NoErr

\* Variant of hasCredentials that accepts every record.
hasCredentials_Always(c) == TRUE

hasCredentials(c) ==
    IF Len(c.SourceProfileName) # 0 THEN TRUE
    ELSE IF HasKeys(c.Credentials) THEN TRUE
    ELSE FALSE

\* Variant of clearCredentialOptions that leaves the record as it is.
clearCredentialOptions_Keep(c) == c

clearCredentialOptions(c) == [c EXCEPT !.Credentials = NoCredentials]

\* ------------------------------------------------------------ the files
\* A file name is a tuple <<style, shape, ...>>; the sections a file holds
\* follow from its name. Values are tuples <<key, file, section>>, so that
\* the file and the section a value was written in can be told from it.
nameA == <<"a">>
nameB == <<"b">>
nameC == <<"c">>
nameDefaultUpper == <<"D", "e", "f", "a", "u", "l", "t">>
nameProfile == <<"p", "r", "o", "f", "i", "l", "e">>
nameT == <<"t">>

Prefixed(name) == profilePrefix \o name

\* The name under which a file of the given style writes profile `name`.
Written(style, name) == IF style = "config" THEN Prefixed(name) ELSE name

SecSpec(name, keys, link) == [name |-> name, keys |-> keys, link |-> link]

MergeShapes == {"UD", "P", "UP", "UPTS", "DS", "L", "UPTDL", "X"}

MergeFileSpec(style, shape) ==
    LET a == Written(style, nameA)
        b == Written(style, nameB)
    IN  CASE shape = "UD" -> {SecSpec(a, {usernameKey, domainKey}, <<>>)}
          [] shape = "P" -> {SecSpec(a, {passwordKey}, <<>>)}
          [] shape = "UP" -> {SecSpec(a, {usernameKey, passwordKey}, <<>>)}
          [] shape = "UPTS" ->
                {SecSpec(a, {usernameKey, passwordKey, sessionTokenKey, subdomainKey}, <<>>)}
          [] shape = "DS" -> {SecSpec(a, {domainKey, subdomainKey}, <<>>)}
          [] shape = "L" -> {SecSpec(a, {}, nameB),
                             SecSpec(b, {usernameKey, passwordKey}, <<>>)}
          [] shape = "UPTDL" ->
                {SecSpec(a, {usernameKey, passwordKey, sessionTokenKey, domainKey}, nameC)}
          [] OTHER -> {}

\* Files with the profiles a and b, each with or without credentials and
\* with or without a source_profile link.
LinkTargets == {<<>>, nameA, nameB, nameC}
CredShapes == {"none", "pair", "user"}

CredKeys(c) ==
    CASE c = "pair" -> {usernameKey, passwordKey}
      [] c = "user" -> {usernameKey}
      [] OTHER -> {}

ResolveFiles ==
    {<<"credentials", "R", la, ca, lb, cb>> :
        la \in LinkTargets, ca \in CredShapes, lb \in LinkTargets, cb \in CredShapes}

\* Config files whose section names are any subset of NormNames.
NormNames ==
    {DefaultSharedConfigProfile, nameDefaultUpper, Prefixed(nameA), nameA,
     nameProfile, Prefixed(DefaultSharedConfigProfile),
     Prefixed(Prefixed(nameA)), nameT, Prefixed(nameT)}

NormFiles == {<<"config", "N", S>> : S \in SUBSET NormNames}

\* Config files that are listed in pairs.
NormPairNames ==
    {DefaultSharedConfigProfile, Prefixed(DefaultSharedConfigProfile),
     nameA, Prefixed(nameA)}

NormPairFiles == {<<"config", "N", S>> : S \in SUBSET NormPairNames}

\* Credentials files with prefixed and unprefixed section names, and the
\* config files they are listed with.
NormCredentialsNames ==
    {DefaultSharedConfigProfile, nameA, Prefixed(nameA), nameProfile, Prefixed(nameT)}

NormCredentialsFiles == {<<"credentials", "N", S>> : S \in SUBSET NormCredentialsNames}

NormCredentialsConfigs ==
    {<<>>, <<<<"config", "N", {Prefixed(nameA)}>>>>,
     <<<<"config", "N", {Prefixed(Prefixed(nameA))}>>>>}

FileSpec(f) ==
    CASE f[2] = "R" -> {SecSpec(nameA, CredKeys(f[4]), f[3]),
                        SecSpec(nameB, CredKeys(f[6]), f[5])}
      [] f[2] = "N" -> {SecSpec(n, {domainKey}, <<>>) : n \in f[3]}
      [] OTHER -> MergeFileSpec(f[1], f[2])

\* ini.OpenFile fails with UnableToReadFile for a file that cannot be read.
Unreadable(f) == f[2] = "X"

\* ini.OpenFile fails with another error for a file that cannot be parsed.
Malformed(f) == f[2] = "M"

\* ini.OpenFile: the section table of a file; every key records the file.
OpenFile(f) ==
    LET specs == FileSpec(f)
        SpecOf(n) == CHOOSE sp \in specs : sp.name = n
        KeysOf(sp) == sp.keys \cup (IF sp.link = <<>> THEN {} ELSE {sourceProfileKey})
    IN  [n \in {sp.name : sp \in specs} |->
            [Name |-> n,
             values |-> [k \in KeysOf(SpecOf(n)) |->
                            IF k = sourceProfileKey THEN SpecOf(n).link ELSE <<k, f, n>>],
             SourceFile |-> [k \in KeysOf(SpecOf(n)) |-> f],
             Errors |-> <<>>,
             Logs |-> <<>>]]

\* ------------------------------------------- the records of the pipeline
\* cybr.Config{}: a field is empty or holds the value that a source gave.
ZeroConfig ==
    [SubDomain |-> <<>>, Domain |-> <<>>, Logger |-> <<>>, ClientLogMode |-> <<>>,
     HTTPClient |-> <<>>, APIOptions |-> <<>>, Credentials |-> <<>>]

\* The zero values of the results of a getter; asked is the set of the
\* sources whose provider method has been called.
NotAsked == [value |-> <<>>, found |-> FALSE, err |-> NoErr, asked |-> {}]

NoQuery == [cap |-> "", answers |-> <<>>, result |-> NotAsked]

\* loadSharedConfig is not running.
NoLocals ==
    [at |-> "", profile |-> <<>>, configFiles |-> <<>>, credentialsFiles |-> <<>>,
     logger |-> <<>>]

NotReturned == [cfg |-> ZeroConfig, err |-> NoErr]

\* A list of file names that is nil, and one that is set.
NilFiles == [nil |-> TRUE, files |-> <<>>]

Files(list) == [nil |-> FALSE, files |-> list]

\* LoadOptions{}
NoOptions ==
    [Domain |-> <<>>, Subdomain |-> <<>>, Credentials |-> <<>>, Logger |-> <<>>,
     SharedConfigProfile |-> <<>>, SharedConfigFiles |-> NilFiles,
     SharedCredentialsFiles |-> NilFiles, LogConfigurationWarnings |-> <<>>]

\* The environment variables that NewEnvConfig and resolveConfigLoaders read.
EnvVars ==
    {"CYBR_USERNAME", "CYBR_USERNAME_ID", "CYBR_PASSWORD", "CYBR_SECRET",
     "CYBR_SUBDOMAIN", "CYBR_DEFAULT_SUBDOMAIN", "CYBR_DOMAIN", "CYBR_DEFAULT_DOMAIN",
     "CYBR_PROFILE", "CYBR_DEFAULT_PROFILE", "CYBR_SHARED_CREDENTIALS_FILE",
     "CYBR_CONFIG_FILE"}

\* No variable is set.
NoEnviron == [v \in EnvVars |-> <<>>]

\* ------------------------------------------------------------- the state
VARIABLES
    profile,             \* the profile name LoadSharedConfigProfile is called with
    configFiles,         \* option.ConfigFiles
    credentialsFiles,    \* option.CredentialsFiles
    pc,                  \* the position in LoadSharedConfigProfile
    idx,                 \* the index of the next file of the list being loaded
    configSections,      \* configSections, the table the profile is resolved in
    credentialsSections, \* credentialsSections
    stack,               \* the records of the pending setFromIniSections calls
    callProfile,         \* the profile argument of the call about to run
    profiles,            \* the visited set shared by the calls
    ret,                 \* what the last finished setFromIniSections call returned
    result,              \* what LoadSharedConfigProfile returned
    loader,              \* the loader that calls LoadSharedConfigProfile
    loaded,              \* what the loader returned
    logger,              \* option.Logger is not nil
    logged,              \* the messages written through option.Logger
    options,             \* the LoadOptions after the option functions
    environ,             \* the environment variables of the process
    ppc,                 \* the position in LoadDefaultConfig
    optFns,              \* the option functions not yet applied: TRUE for one that fails
    loaders,             \* the loaders not yet called
    resolvers,           \* the resolvers not yet called
    cs,                  \* the configs slice, the list of sources
    query,               \* the getter call of the last step: the answers, the result
    locals,              \* the local variables of loadSharedConfig
    cfg,                 \* the cybr.Config that ResolveCYBRConfig fills
    stepErr,             \* the error that an option function, loader or resolver returned
    out                  \* what LoadDefaultConfig returned

vars == <<profile, configFiles, credentialsFiles, pc, idx, configSections,
          credentialsSections, stack, callProfile, profiles, ret, result, loader, loaded,
          logger, logged, options, environ,
          ppc, optFns, loaders, resolvers, cs, query, locals, cfg, stepErr, out>>

pipeline == <<ppc, optFns, loaders, resolvers, cs, query, locals, cfg, stepErr, out>>

inputs == <<profile, configFiles, credentialsFiles, loader, logger, options, environ>>

SeqsUpTo(S, n) == UNION {[1..i -> S] : i \in 0..n}

MergeConfigFiles == {<<"config", sh>> : sh \in MergeShapes}
MergeCredentialsFiles == {<<"credentials", sh>> : sh \in MergeShapes}

NormProfiles ==
    {DefaultSharedConfigProfile, nameDefaultUpper, nameA, nameProfile, Prefixed(nameA),
     nameT}

NoResult == [cfg |-> ZeroSharedConfig, err |-> NoErr]

Loaders == {"loadSharedConfig", "loadSharedConfigIgnoreNotExist"}

\* A loader returns a Config, which is nil or holds a SharedConfig, and an error.
NotLoaded == [cfg |-> <<>>, err |-> NoErr]

\* Lists with files that cannot be read or cannot be parsed.
LoadErrorShapes == {"UP", "M", "X"}

\* Lists of files that define the profile a in different ways.
InitMerge ==
    /\ configFiles \in SeqsUpTo(MergeConfigFiles, MaxFiles)
    /\ credentialsFiles \in SeqsUpTo(MergeCredentialsFiles, MaxFiles - Len(configFiles))
    /\ profile = nameA
    /\ loader = "loadSharedConfig"
    /\ logger = TRUE

\* One credentials file with the profiles a and b and their links.
InitResolve ==
    /\ configFiles = <<>>
    /\ credentialsFiles \in {<<f>> : f \in ResolveFiles}
    /\ profile \in {nameA, nameB}
    /\ loader \in Loaders
    /\ logger = TRUE

\* One config file with valid and invalid section names.
InitNorm ==
    /\ configFiles \in {<<f>> : f \in NormFiles}
    /\ credentialsFiles = <<>>
    /\ profile \in NormProfiles
    /\ loader = "loadSharedConfigIgnoreNotExist"
    /\ logger = TRUE

\* One credentials file with prefixed and unprefixed section names.
InitNormCredentials ==
    /\ configFiles \in NormCredentialsConfigs
    /\ credentialsFiles \in {<<f>> : f \in NormCredentialsFiles}
    /\ profile \in {nameA, Prefixed(nameA), nameT, nameProfile}
    /\ loader \in Loaders
    /\ logger = TRUE

\* Lists of files some of which cannot be read or cannot be parsed.
InitLoadError ==
    /\ configFiles \in SeqsUpTo({<<"config", sh>> : sh \in LoadErrorShapes}, 2)
    /\ credentialsFiles \in SeqsUpTo({<<"credentials", sh>> : sh \in LoadErrorShapes}, 2)
    /\ profile \in {nameA, nameB}
    /\ loader \in Loaders
    /\ logger = TRUE

\* Two credentials files: the first links a to b and gives b a complete pair,
\* the second defines b again with nothing or with cybr_username alone.
InitResolvePartial ==
    /\ configFiles = <<>>
    /\ credentialsFiles \in
           {<<<<"credentials", "R", nameB, ca, lb, "pair">>,
              <<"credentials", "R", <<>>, "none", <<>>, cb>>>> :
               ca \in {"none", "pair"}, lb \in {<<>>, nameC}, cb \in {"none", "user"}}
    /\ profile \in {nameA, nameB}
    /\ loader = "loadSharedConfig"
    /\ logger = TRUE

\* Two config files with prefixed and unprefixed section names.
InitNormPair ==
    /\ configFiles \in {<<f, g>> : f \in NormPairFiles, g \in NormPairFiles}
    /\ credentialsFiles = <<>>
    /\ profile \in {DefaultSharedConfigProfile, nameA}
    /\ loader = "loadSharedConfig"
    /\ logger \in BOOLEAN

\* LoadDefaultConfig is not called.
PipelineIdle ==
    /\ ppc = "idle"
    /\ optFns = <<>>
    /\ loaders = <<>>
    /\ resolvers = <<>>
    /\ cs = <<>>
    /\ query = NoQuery
    /\ locals = NoLocals
    /\ cfg = ZeroConfig
    /\ stepErr = NoErr
    /\ out = NotReturned
    /\ options = NoOptions
    /\ environ = NoEnviron

\* The start of LoadSharedConfigProfile.
InitLoad ==
    /\ pc = "loadConfig"
    /\ idx = 1
    /\ configSections = NewSections
    /\ credentialsSections = NewSections
    /\ stack = <<>>
    /\ callProfile = <<>>
    /\ profiles = {}
    /\ ret = NoResult
    /\ result = NoResult
    /\ loaded = NotLoaded
    /\ logged = <<>>

Init ==
    /\ \/ InitMerge
       \/ InitResolve
       \/ InitNorm
       \/ InitNormCredentials
       \/ InitNormPair
       \/ InitLoadError
       \/ InitResolvePartial
    /\ InitLoad
    /\ PipelineIdle

\* One iteration of the loop of loadIniFiles.
loadIniFile(mergedSections, filename) ==
    IF Unreadable(filename) THEN mergedSections
    ELSE mergeSections(mergedSections, OpenFile(filename))

\* loadIniFiles(option.ConfigFiles), file by file
LoadConfigFile ==
    /\ pc = "loadConfig"
    /\ idx <= Len(configFiles)
    /\ IF Malformed(configFiles[idx])
       THEN /\ pc' = "done"
            /\ result' = [cfg |-> ZeroSharedConfig,
                          err |-> SharedConfigLoadError(configFiles[idx])]
            /\ UNCHANGED <<configSections, idx>>
       ELSE /\ configSections' = loadIniFile(configSections, configFiles[idx])
            /\ idx' = idx + 1
            /\ UNCHANGED <<pc, result>>
    /\ UNCHANGED <<inputs, pipeline, loaded, logged, credentialsSections, stack, callProfile, profiles, ret>>

ProcessConfigSections ==
    /\ pc = "loadConfig"
    /\ idx > Len(configFiles)
    /\ LET st == processConfigSections(configSections)
       IN  IF st.err
           THEN /\ pc' = "done"
                /\ result' = [cfg |-> ZeroSharedConfig,
                              err |-> [kind |-> "failed to rename profile section",
                                       Profile |-> <<>>, Err |-> <<>>]]
                /\ UNCHANGED configSections
           ELSE /\ pc' = "loadCredentials"
                /\ configSections' = st.sections
                /\ UNCHANGED result
    /\ logged' = IF logger THEN logged \o processConfigSections(configSections).logs
                 ELSE logged
    /\ idx' = 1
    /\ UNCHANGED <<inputs, pipeline, loaded, credentialsSections, stack, callProfile, profiles, ret>>

\* loadIniFiles(option.CredentialsFiles), file by file
LoadCredentialsFile ==
    /\ pc = "loadCredentials"
    /\ idx <= Len(credentialsFiles)
    /\ IF Malformed(credentialsFiles[idx])
       THEN /\ pc' = "done"
            /\ result' = [cfg |-> ZeroSharedConfig,
                          err |-> SharedConfigLoadError(credentialsFiles[idx])]
            /\ UNCHANGED <<credentialsSections, idx>>
       ELSE /\ credentialsSections' = loadIniFile(credentialsSections, credentialsFiles[idx])
            /\ idx' = idx + 1
            /\ UNCHANGED <<pc, result>>
    /\ UNCHANGED <<inputs, pipeline, loaded, logged, configSections, stack, callProfile, profiles, ret>>

ProcessCredentialsSections ==
    /\ pc = "loadCredentials"
    /\ idx > Len(credentialsFiles)
    /\ credentialsSections' = processCredentialsSections(credentialsSections)
    /\ logged' = IF logger THEN logged \o processCredentialsLogs(List(credentialsSections))
                 ELSE logged
    /\ pc' = "merge"
    /\ UNCHANGED <<inputs, pipeline, loaded, idx, configSections, stack, callProfile, profiles, ret, result>>

\* Variant of mergeCategories that merges the config table into the
\* credentials table, so that the config files win.
mergeCategories_ConfigWins(configTable, credentialsTable) ==
    mergeSections(credentialsTable, configTable)

\* The merge of the two categories: the credentials table into the config table.
mergeCategories(configTable, credentialsTable) ==
    mergeSections(configTable, credentialsTable)

\* mergeSections(&configSections, credentialsSections) and the set-up of the
\* top-level setFromIniSections call
MergeCategories ==
    /\ pc = "merge"
    /\ configSections' = mergeCategories(configSections, credentialsSections)
    /\ callProfile' = profile
    /\ profiles' = {}
    /\ stack' = <<>>
    /\ pc' = "call"
    /\ UNCHANGED <<inputs, pipeline, loaded, logged, idx, credentialsSections, ret, result>>

\* setFromIniSections up to its recursive call or its return.
ResolveCall ==
    /\ pc = "call"
    /\ Len(stack) < MaxDepth
    /\ LET c0 == [ZeroSharedConfig EXCEPT !.Profile = callProfile]
           found == HasSection(configSections, callProfile)
           r == setFromIniSection(c0, callProfile, configSections[callProfile])
           v == validateCredentialType(r.cfg)
       IN  IF ~found
           THEN /\ ret' = [cfg |-> c0, err |-> SharedConfigProfileNotExistError(callProfile)]
                /\ pc' = "return"
                /\ UNCHANGED <<stack, callProfile, profiles>>
           ELSE IF r.err # NoErr
           THEN /\ ret' = [cfg |-> r.cfg, err |-> FetchError(callProfile, r.err)]
                /\ pc' = "return"
                /\ UNCHANGED <<stack, callProfile, profiles>>
           ELSE IF Cardinality(profiles) # 0 /\ HasKeys(r.cfg.Credentials)
           THEN /\ ret' = [cfg |-> r.cfg, err |-> NoErr]
                /\ pc' = "return"
                /\ UNCHANGED <<stack, callProfile, profiles>>
           ELSE IF v # NoErr
           THEN /\ ret' = [cfg |-> r.cfg, err |-> v]
                /\ pc' = "return"
                /\ profiles' = profiles \cup {callProfile}
                /\ UNCHANGED <<stack, callProfile>>
           ELSE IF Len(r.cfg.SourceProfileName) # 0
           THEN /\ stack' = Append(stack, clearCredentialOptions(r.cfg))
                /\ callProfile' = r.cfg.SourceProfileName
                /\ profiles' = profiles \cup {callProfile}
                /\ pc' = "call"
                /\ UNCHANGED ret
           ELSE /\ ret' = [cfg |-> r.cfg, err |-> NoErr]
                /\ pc' = "return"
                /\ profiles' = profiles \cup {callProfile}
                /\ UNCHANGED <<stack, callProfile>>
    /\ logged' = IF logger /\ HasSection(configSections, callProfile)
                 THEN logged \o configSections[callProfile].Logs
                 ELSE logged
    /\ UNCHANGED <<inputs, pipeline, loaded, idx, configSections, credentialsSections, result>>

\* setFromIniSections after its recursive call has returned.
ResolveReturn ==
    /\ pc = "return"
    /\ Len(stack) > 0
    /\ LET c == stack[Len(stack)]
           srcCfg == ret.cfg
       IN  ret' =
             IF ret.err # NoErr
             THEN [cfg |-> c,
                   err |-> IF ret.err.kind = "SharedConfigProfileNotExistError"
                           THEN SharedConfigLinkError(c.SourceProfileName, <<ret.err>>)
                           ELSE ret.err]
             ELSE IF ~hasCredentials(srcCfg)
             THEN [cfg |-> c, err |-> SharedConfigLinkError(c.SourceProfileName, <<>>)]
             ELSE [cfg |-> [c EXCEPT !.Source = <<srcCfg>>], err |-> NoErr]
    /\ stack' = SubSeq(stack, 1, Len(stack) - 1)
    /\ UNCHANGED <<inputs, pipeline, loaded, logged, pc, idx, configSections, credentialsSections, callProfile,
                   profiles, result>>

\* LoadSharedConfigProfile returns the record, or the zero record and the error.
Finish ==
    /\ pc = "return"
    /\ Len(stack) = 0
    /\ result' = IF ret.err # NoErr
                 THEN [cfg |-> ZeroSharedConfig, err |-> ret.err]
                 ELSE [cfg |-> ret.cfg, err |-> NoErr]
    /\ pc' = "done"
    /\ UNCHANGED <<inputs, pipeline, loaded, logged, idx, configSections, credentialsSections, stack, callProfile,
                   profiles, ret>>

\* Variant of loadSharedConfigIgnoreNotExist that returns the error it is given.
loadSharedConfigIgnoreNotExist_Strict(res) == [cfg |-> <<res.cfg>>, err |-> res.err]

\* Variant of loadSharedConfigIgnoreNotExist that looks for a not-found error
\* in the chain of wrapped errors.
loadSharedConfigIgnoreNotExist_Unwrap(res) ==
    IF res.err = NoErr THEN [cfg |-> <<res.cfg>>, err |-> NoErr]
    ELSE IF \/ res.err.kind = "SharedConfigProfileNotExistError"
            \/ /\ res.err.Err # <<>>
               /\ res.err.Err[1].kind = "SharedConfigProfileNotExistError"
    THEN [cfg |-> <<ZeroSharedConfig>>, err |-> NoErr]
    ELSE [cfg |-> <<>>, err |-> res.err]

\* loadSharedConfig returns what LoadSharedConfigProfile returned.
loadSharedConfig(res) == [cfg |-> <<res.cfg>>, err |-> res.err]

\* loadSharedConfigIgnoreNotExist: an error of type
\* SharedConfigProfileNotExistError becomes SharedConfig{} and no error, any
\* other error is returned with a nil Config.
loadSharedConfigIgnoreNotExist(res) ==
    IF res.err = NoErr THEN [cfg |-> <<res.cfg>>, err |-> NoErr]
    ELSE IF res.err.kind = "SharedConfigProfileNotExistError"
    THEN [cfg |-> <<ZeroSharedConfig>>, err |-> NoErr]
    ELSE [cfg |-> <<>>, err |-> res.err]

\* The return of the loader.
LoaderReturn ==
    /\ pc = "done"
    /\ pc' = "loaded"
    /\ loaded' = IF loader = "loadSharedConfigIgnoreNotExist"
                 THEN loadSharedConfigIgnoreNotExist(result)
                 ELSE loadSharedConfig(result)
    /\ UNCHANGED <<inputs, pipeline, logged, idx, configSections, credentialsSections, stack,
                   callProfile, profiles, ret, result>>

Next ==
    \/ LoadConfigFile
    \/ ProcessConfigSections
    \/ LoadCredentialsFile
    \/ ProcessCredentialsSections
    \/ MergeCategories
    \/ ResolveCall
    \/ ResolveReturn
    \/ Finish
    \/ LoaderReturn

Spec == Init /\ [][Next]_vars

\* ---------------------------------------------------- LoadDefaultConfig
MaxOptFns == 2

\* The variables of LoadSharedConfigProfile and of its loader.
shared == <<inputs, pc, idx, configSections, credentialsSections, stack, callProfile,
            profiles, ret, result, loaded, logged>>

\* The fields of cybr.Config in the order in which the resolvers of
\* defaultCYBRConfigResolvers write them.
defaultCYBRConfigResolvers ==
    <<"SubDomain", "Domain", "Logger", "ClientLogMode", "HTTPClient", "APIOptions",
      "Credentials">>

\* A source lacks the provider interface of a getter, or its method reports
\* that it has no value, reports a value, or fails. A source is asked at
\* most once for a value in one load, so its answer is drawn when it is asked.
Answers == {"lacks", "notfound", "found", "error"}

SourceTag == <<"1", "2", "3">>

\* The value and the error that the source at index i gives for a capability.
ProviderValue(cap, i) == <<cap, SourceTag[i]>>

ProviderError(cap, i) ==
    [kind |-> "provider error", Profile |-> <<>>, Err |-> <<>>,
     cap |-> cap, source |-> SourceTag[i]]

OptFnError == [kind |-> "option function error", Profile |-> <<>>, Err |-> <<>>]

CredentialsError == [kind |-> "resolveCredentials error", Profile |-> <<>>, Err |-> <<>>]

\* What the provider method of the source at index i returns.
Provide(cap, answers, i, r) ==
    CASE answers[i] = "found" ->
            [value |-> ProviderValue(cap, i), found |-> TRUE, err |-> NoErr,
             asked |-> r.asked \cup {i}]
      [] answers[i] = "error" ->
            [value |-> <<>>, found |-> FALSE, err |-> ProviderError(cap, i),
             asked |-> r.asked \cup {i}]
      [] OTHER ->
            [value |-> <<>>, found |-> FALSE, err |-> NoErr, asked |-> r.asked \cup {i}]

\* Variant of the getters whose loop ends on an error only.
RECURSIVE getFrom_NoBreakOnFound(_, _, _, _)
getFrom_NoBreakOnFound(cap, answers, i, r) ==
    IF i > Len(answers) THEN r
    ELSE IF answers[i] = "lacks" THEN getFrom_NoBreakOnFound(cap, answers, i + 1, r)
    ELSE LET got == Provide(cap, answers, i, r)
         IN  IF got.err # NoErr THEN got
             ELSE getFrom_NoBreakOnFound(cap, answers, i + 1, got)

getValue_NoBreakOnFound(cap, answers) == getFrom_NoBreakOnFound(cap, answers, 1, NotAsked)

\* The loop of a getter from the source at index i on; r holds the named results.
RECURSIVE getFrom(_, _, _, _)
getFrom(cap, answers, i, r) ==
    IF i > Len(answers) THEN r
    ELSE IF answers[i] = "lacks" THEN getFrom(cap, answers, i + 1, r)
    ELSE LET got == Provide(cap, answers, i, r)
         IN  IF got.err # NoErr \/ got.found THEN got
             ELSE getFrom(cap, answers, i + 1, got)

\* getDomain, getSubdomain, getLogger, ...: the getters are the same loop.
getValue(cap, answers) == getFrom(cap, answers, 1, NotAsked)

\* Variant of ReturnError that returns the configuration filled so far.
ReturnError_KeepFields(err) == [cfg |-> cfg, err |-> err]

\* return cybr.Config{}, err
ReturnError(err) == [cfg |-> ZeroConfig, err |-> err]

\* LoadDefaultConfig returns the error of one of its steps.
Fail(err) ==
    /\ stepErr' = err
    /\ out' = ReturnError(err)
    /\ ppc' = "returned"

resolveConfigLoaders(profileSpecified) ==
    <<"loadEnvConfig",
      IF profileSpecified THEN "loadSharedConfig" ELSE "loadSharedConfigIgnoreNotExist">>

\* The loop over optFns.
ApplyOptFn ==
    /\ ppc = "optFns"
    /\ optFns # <<>>
    /\ optFns' = Tail(optFns)
    /\ IF Head(optFns)
       THEN Fail(OptFnError)
       ELSE UNCHANGED <<ppc, stepErr, out>>
    /\ UNCHANGED <<shared, loaders, resolvers, cs, query, locals, cfg>>

\* configs{options} and resolveConfigLoaders(&options)
ResolveConfigLoaders ==
    /\ ppc = "optFns"
    /\ optFns = <<>>
    /\ cs' = <<"LoadOptions">>
    /\ \E profileSpecified \in BOOLEAN : loaders' = resolveConfigLoaders(profileSpecified)
    /\ ppc' = "loaders"
    /\ UNCHANGED <<shared, optFns, resolvers, query, locals, cfg, stepErr, out>>

\* AppendFromLoaders calls loadEnvConfig, which does not fail.
LoadEnvConfig ==
    /\ ppc = "loaders"
    /\ loaders # <<>>
    /\ Head(loaders) = "loadEnvConfig"
    /\ cs' = Append(cs, "EnvConfig")
    /\ loaders' = Tail(loaders)
    /\ locals' = [NoLocals EXCEPT !.at = "getSharedConfigProfile"]
    /\ UNCHANGED <<shared, ppc, optFns, resolvers, query, cfg, stepErr, out>>

\* The getters that loadSharedConfig calls, in order, before it loads the files.
SharedConfigGetters ==
    {"getSharedConfigProfile", "getSharedConfigFiles", "getSharedCredentialsFiles",
     "getLogConfigurationWarnings", "getLogger"}

\* The local variables of loadSharedConfig after the getter at locals.at has
\* returned r without an error; logWarnings is the value of a found
\* LogConfigurationWarnings.
AfterGetter(r, logWarnings) ==
    CASE locals.at = "getSharedConfigProfile" ->
            [locals EXCEPT !.at = "getSharedConfigFiles",
                           !.profile = IF r.found THEN r.value
                                       ELSE DefaultSharedConfigProfile]
      [] locals.at = "getSharedConfigFiles" ->
            [locals EXCEPT !.at = "getSharedCredentialsFiles", !.configFiles = r.value]
      [] locals.at = "getSharedCredentialsFiles" ->
            [locals EXCEPT !.at = "getLogConfigurationWarnings",
                           !.credentialsFiles = r.value]
      [] locals.at = "getLogConfigurationWarnings" ->
            [locals EXCEPT !.at = IF r.found /\ logWarnings THEN "getLogger"
                                 ELSE "LoadSharedConfigProfile"]
      [] OTHER ->
            [locals EXCEPT !.at = "LoadSharedConfigProfile",
                           !.logger = IF r.found THEN r.value ELSE <<"os.Stderr">>]

\* loadSharedConfig calls the getter at locals.at.
SharedConfigGetter ==
    /\ ppc = "loaders"
    /\ loaders # <<>>
    /\ Head(loaders) \in Loaders
    /\ locals.at \in SharedConfigGetters
    /\ \E answers \in [1..Len(cs) -> Answers], logWarnings \in BOOLEAN :
           LET r == getValue(locals.at, answers)
           IN  /\ query' = [cap |-> locals.at, answers |-> answers, result |-> r]
               /\ IF r.err # NoErr
                  THEN Fail(r.err) /\ UNCHANGED locals
                  ELSE /\ locals' = AfterGetter(r, logWarnings)
                       /\ UNCHANGED <<ppc, stepErr, out>>
    /\ UNCHANGED <<shared, optFns, loaders, resolvers, cs, cfg>>

\* What LoadSharedConfigProfile returns to the loader.
SharedConfigResults(name) ==
    {[cfg |-> [ZeroSharedConfig EXCEPT !.Profile = name], err |-> NoErr],
     [cfg |-> ZeroSharedConfig, err |-> SharedConfigProfileNotExistError(name)],
     [cfg |-> ZeroSharedConfig, err |-> SharedConfigLinkError(name, <<>>)]}

\* The loader returns what LoadSharedConfigProfile returned, or the error
\* ends AppendFromLoaders and LoadDefaultConfig.
LoadSharedConfig ==
    /\ ppc = "loaders"
    /\ loaders # <<>>
    /\ Head(loaders) \in Loaders
    /\ locals.at = "LoadSharedConfigProfile"
    /\ \E res \in SharedConfigResults(locals.profile) :
           LET l == IF Head(loaders) = "loadSharedConfigIgnoreNotExist"
                    THEN loadSharedConfigIgnoreNotExist(res)
                    ELSE loadSharedConfig(res)
           IN  IF l.err # NoErr
               THEN Fail(l.err) /\ UNCHANGED <<cs, loaders>>
               ELSE /\ cs' = Append(cs, "SharedConfig")
                    /\ loaders' = Tail(loaders)
                    /\ UNCHANGED <<ppc, stepErr, out>>
    /\ locals' = NoLocals
    /\ query' = NoQuery
    /\ UNCHANGED <<shared, optFns, resolvers, cfg>>

\* AppendFromLoaders has returned the sources; ResolveCYBRConfig starts.
ResolveCYBRConfig ==
    /\ ppc = "loaders"
    /\ loaders = <<>>
    /\ ppc' = "resolvers"
    /\ resolvers' = defaultCYBRConfigResolvers
    /\ cfg' = ZeroConfig
    /\ UNCHANGED <<shared, optFns, loaders, cs, query, locals, stepErr, out>>

\* resolveSubdomain, resolveDomain, resolveLogger, ...: the field is
\* written when the getter has found a value.
resolveValue(c, field, r) == IF r.found THEN [c EXCEPT ![field] = r.value] ELSE c

\* One resolver of the list, resolveCredentials excepted.
Resolve ==
    /\ ppc = "resolvers"
    /\ resolvers # <<>>
    /\ Head(resolvers) # "Credentials"
    /\ resolvers' = Tail(resolvers)
    /\ \E answers \in [1..Len(cs) -> Answers] :
           LET r == getValue(Head(resolvers), answers)
           IN  /\ query' = [cap |-> Head(resolvers), answers |-> answers, result |-> r]
               /\ IF r.err # NoErr
                  THEN Fail(r.err) /\ UNCHANGED cfg
                  ELSE /\ cfg' = resolveValue(cfg, Head(resolvers), r)
                       /\ UNCHANGED <<ppc, stepErr, out>>
    /\ UNCHANGED <<shared, optFns, loaders, cs, locals>>

\* resolveCredentials sets the credentials, leaves them unset, or fails.
ResolveCredentials ==
    /\ ppc = "resolvers"
    /\ resolvers # <<>>
    /\ Head(resolvers) = "Credentials"
    /\ resolvers' = Tail(resolvers)
    /\ \/ /\ cfg' = [cfg EXCEPT !.Credentials = <<"Credentials">>]
          /\ UNCHANGED <<ppc, stepErr, out>>
       \/ UNCHANGED <<cfg, ppc, stepErr, out>>
       \/ Fail(CredentialsError) /\ UNCHANGED cfg
    /\ query' = NoQuery
    /\ UNCHANGED <<shared, optFns, loaders, cs, locals>>

\* return cfg, nil
ReturnConfig ==
    /\ ppc = "resolvers"
    /\ resolvers = <<>>
    /\ out' = [cfg |-> cfg, err |-> NoErr]
    /\ ppc' = "returned"
    /\ UNCHANGED <<shared, optFns, loaders, resolvers, cs, query, locals, cfg, stepErr>>

\* LoadSharedConfigProfile is not called on its own.
SharedIdle ==
    /\ profile = <<>>
    /\ configFiles = <<>>
    /\ credentialsFiles = <<>>
    /\ loader = "loadSharedConfig"
    /\ logger = FALSE
    /\ logged = <<>>
    /\ pc = "idle"
    /\ idx = 1
    /\ configSections = NewSections
    /\ credentialsSections = NewSections
    /\ stack = <<>>
    /\ callProfile = <<>>
    /\ profiles = {}
    /\ ret = NoResult
    /\ result = NoResult
    /\ loaded = NotLoaded

\* LoadDefaultConfig is called with a list of option functions.
InitLoadDefaultConfig ==
    /\ ppc = "optFns"
    /\ optFns \in SeqsUpTo(BOOLEAN, MaxOptFns)
    /\ loaders = <<>>
    /\ resolvers = <<>>
    /\ cs = <<>>
    /\ query = NoQuery
    /\ locals = NoLocals
    /\ cfg = ZeroConfig
    /\ stepErr = NoErr
    /\ out = NotReturned
    /\ options = NoOptions
    /\ environ = NoEnviron

\* The program is entered at LoadDefaultConfig or at LoadSharedConfigProfile.
InitEntry ==
    \/ InitLoadDefaultConfig /\ SharedIdle
    \/ (InitResolve \/ InitLoadError) /\ InitLoad /\ PipelineIdle

NextEntry ==
    \/ ApplyOptFn
    \/ ResolveConfigLoaders
    \/ LoadEnvConfig
    \/ SharedConfigGetter
    \/ LoadSharedConfig
    \/ ResolveCYBRConfig
    \/ Resolve
    \/ ResolveCredentials
    \/ ReturnConfig
    \/ Next

SpecLoadDefaultConfig == InitEntry /\ [][NextEntry]_vars

\* ------------------------------------------------- the default resolvers
\* Variant of skipsDefaultDomain that never skips the step.
skipsDefaultDomain_Never(c) == FALSE

\* resolveDefaultDomain returns at once: if len(cfg.Domain) > 0 { return nil }
skipsDefaultDomain(c) == Len(c.Domain) > 0

\* resolveDefaultSubdomain returns at once: if len(cfg.Domain) > 0 { return nil }
skipsDefaultSubdomain(c) == Len(c.Domain) > 0

\* The field of cybr.Config that the resolver writes.
FieldOf(resolver) == IF resolver = "DefaultDomain" THEN "Domain" ELSE "SubDomain"

\* A value that an earlier step has written into the field.
Earlier(field) == <<field, "0">>

\* The step of a default resolver: skip reports that it returns at once.
ResolveDefault(resolver, skip) ==
    /\ ppc = "resolvers"
    /\ resolvers # <<>>
    /\ Head(resolvers) = resolver
    /\ resolvers' = Tail(resolvers)
    /\ IF skip
       THEN /\ query' = NoQuery
            /\ UNCHANGED <<cfg, ppc, stepErr, out>>
       ELSE \E answers \in [1..Len(cs) -> Answers] :
               LET r == getValue(resolver, answers)
               IN  /\ query' = [cap |-> resolver, answers |-> answers, result |-> r]
                   /\ IF r.err # NoErr
                      THEN Fail(r.err) /\ UNCHANGED cfg
                      ELSE /\ cfg' = resolveValue(cfg, FieldOf(resolver), r)
                           /\ UNCHANGED <<ppc, stepErr, out>>
    /\ UNCHANGED <<shared, optFns, loaders, cs, locals>>

ResolveDefaultDomain == ResolveDefault("DefaultDomain", skipsDefaultDomain(cfg))

ResolveDefaultSubdomain == ResolveDefault("DefaultSubdomain", skipsDefaultSubdomain(cfg))

\* A default resolver, or the two in either order, is called with a
\* configuration in which earlier steps have or have not written the domain
\* and the subdomain, and with one to three sources.
InitResolveDefaults ==
    /\ ppc = "resolvers"
    /\ optFns = <<>>
    /\ loaders = <<>>
    /\ resolvers \in {<<"DefaultDomain">>, <<"DefaultSubdomain">>,
                       <<"DefaultDomain", "DefaultSubdomain">>,
                       <<"DefaultSubdomain", "DefaultDomain">>}
    /\ cs \in {SubSeq(<<"LoadOptions", "EnvConfig", "SharedConfig">>, 1, n) : n \in 1..3}
    /\ query = NoQuery
    /\ locals = NoLocals
    /\ cfg \in {[ZeroConfig EXCEPT !.Domain = d, !.SubDomain = sd] :
                    d \in {<<>>, Earlier("Domain")}, sd \in {<<>>, Earlier("SubDomain")}}
    /\ stepErr = NoErr
    /\ out = NotReturned
    /\ options = NoOptions
    /\ environ = NoEnviron
    /\ SharedIdle

NextResolveDefaults == ResolveDefaultDomain \/ ResolveDefaultSubdomain

SpecResolveDefaults == InitResolveDefaults /\ [][NextResolveDefaults]_vars

\* ----------------------------------------------- the sources of the load
\* The keys that NewEnvConfig reads for one field, in order.
credUsernameEnvKeys == <<"CYBR_USERNAME", "CYBR_USERNAME_ID">>
credPasswordEnvKeys == <<"CYBR_PASSWORD", "CYBR_SECRET">>
domainEnvKeys == <<"CYBR_DOMAIN", "CYBR_DEFAULT_DOMAIN">>
subdomainEnvKeys == <<"CYBR_SUBDOMAIN", "CYBR_DEFAULT_SUBDOMAIN">>
profileEnvKeys == <<"CYBR_PROFILE", "CYBR_DEFAULT_PROFILE">>

\* setStringFromEnvVal: the value of the first key that is set, or dst.
RECURSIVE setStringFromEnvVal(_, _, _)
setStringFromEnvVal(dst, env, keys) ==
    IF keys = <<>> THEN dst
    ELSE IF Len(env[Head(keys)]) > 0 THEN env[Head(keys)]
    ELSE setStringFromEnvVal(dst, env, Tail(keys))

\* NewEnvConfig: creds is filled from the environment and is not stored in cfg.
NewEnvConfig(env) ==
    LET creds == [NoCredentials EXCEPT
                      !.Source = <<"EnvConfigCredentials">>,
                      !.Username = setStringFromEnvVal(@, env, credUsernameEnvKeys),
                      !.Password = setStringFromEnvVal(@, env, credPasswordEnvKeys)]
    IN  [Credentials |-> NoCredentials,
         Domain |-> setStringFromEnvVal(<<>>, env, domainEnvKeys),
         Subdomain |-> setStringFromEnvVal(<<>>, env, subdomainEnvKeys),
         SharedConfigProfile |-> setStringFromEnvVal(<<>>, env, profileEnvKeys),
         SharedCredentialsFile |-> env["CYBR_SHARED_CREDENTIALS_FILE"],
         SharedConfigFile |-> env["CYBR_CONFIG_FILE"]]

\* What a provider method returns; has tells whether the source has the method.
Lacks == [has |-> FALSE, found |-> FALSE, value |-> <<>>]

Gives(found, value) == [has |-> TRUE, found |-> found, value |-> value]

\* A string field: found when it is not empty.
StringField(v) == Gives(Len(v) # 0, v)

\* The provider methods of LoadOptions.
LoadOptionsGet(o, cap) ==
    CASE cap = "Domain" -> StringField(o.Domain)
      [] cap = "SubDomain" -> StringField(o.Subdomain)
      [] cap = "getSharedConfigProfile" -> StringField(o.SharedConfigProfile)
      [] cap = "getSharedConfigFiles" ->
            Gives(~o.SharedConfigFiles.nil, o.SharedConfigFiles)
      [] cap = "getSharedCredentialsFiles" ->
            Gives(~o.SharedCredentialsFiles.nil, o.SharedCredentialsFiles)
      [] cap = "getLogConfigurationWarnings" ->
            Gives(o.LogConfigurationWarnings # <<>>, o.LogConfigurationWarnings)
      [] cap \in {"getLogger", "Logger"} -> StringField(o.Logger)
      [] cap \in {"HTTPClient", "ClientLogMode"} -> Gives(FALSE, <<>>)
      [] cap = "getCredentialsProvider" -> StringField(o.Credentials)
      [] OTHER -> Lacks

\* The provider methods of EnvConfig.
EnvConfigGet(c, cap) ==
    CASE cap = "Domain" -> StringField(c.Domain)
      [] cap = "SubDomain" -> StringField(c.Subdomain)
      [] cap = "getSharedConfigProfile" -> StringField(c.SharedConfigProfile)
      [] cap = "getSharedConfigFiles" ->
            IF Len(c.SharedConfigFile) > 0
            THEN Gives(TRUE, Files(<<c.SharedConfigFile>>))
            ELSE Gives(FALSE, NilFiles)
      [] cap = "getSharedCredentialsFiles" ->
            IF Len(c.SharedCredentialsFile) > 0
            THEN Gives(TRUE, Files(<<c.SharedCredentialsFile>>))
            ELSE Gives(FALSE, NilFiles)
      [] OTHER -> Lacks

\* The provider methods of SharedConfig.
SharedConfigGet(c, cap) ==
    CASE cap = "Domain" -> StringField(c.Domain)
      [] cap = "SubDomain" -> StringField(c.Subdomain)
      [] OTHER -> Lacks

\* The source at index i of the configs slice answers the getter.
SourceGet(i, cap) ==
    CASE cs[i] = "LoadOptions" -> LoadOptionsGet(options, cap)
      [] cs[i] = "EnvConfig" -> EnvConfigGet(NewEnvConfig(environ), cap)
      [] OTHER -> SharedConfigGet(loaded.cfg[1], cap)

\* The answers of the sources of the configs slice to a getter.
SourceAnswers(cap) ==
    [i \in 1..Len(cs) |->
        IF ~SourceGet(i, cap).has THEN "lacks"
        ELSE IF SourceGet(i, cap).found THEN "found" ELSE "notfound"]

\* The named results of a getter over the configs slice: the value is that
\* of the source the loop ended on.
getFromSources(cap) ==
    LET r == getValue(cap, SourceAnswers(cap))
        last == CHOOSE i \in r.asked : \A j \in r.asked : j <= i
    IN  [r EXCEPT !.value = IF r.asked = {} THEN <<>> ELSE SourceGet(last, cap).value]

\* The files at the default locations.
DefaultSharedConfigFiles ==
    <<<<"config", "N", {DefaultSharedConfigProfile, Prefixed(nameA)}>>>>

DefaultSharedCredentialsFiles == <<<<"credentials", "UP">>>>

\* Variant of the defaulting that also replaces an empty list.
filesOrDefault_WhenEmpty(list, default) ==
    IF list.nil \/ list.files = <<>> THEN default ELSE list.files

\* LoadSharedConfigProfile: a nil list is replaced by the default list.
filesOrDefault(list, default) == IF list.nil THEN default ELSE list.files

\* The record at the end of the Source path of a record.
RECURSIVE SourceEnd(_)
SourceEnd(c) == IF c.Source = <<>> THEN c ELSE SourceEnd(c.Source[1])

\* resolveCredentials: the provider of the first source that has one, then
\* the complete credentials of the environment, then those of the profile.
resolveCredentials(c) ==
    LET r == getFromSources("getCredentialsProvider")
        env == NewEnvConfig(environ).Credentials
        file == IF \E i \in 1..Len(cs) : cs[i] = "SharedConfig"
                THEN SourceEnd(loaded.cfg[1]).Credentials
                ELSE NoCredentials
    IN  IF r.found THEN [c EXCEPT !.Credentials = r.value]
        ELSE IF HasKeys(env) THEN [c EXCEPT !.Credentials = <<env>>]
        ELSE IF HasKeys(file) THEN [c EXCEPT !.Credentials = <<file>>]
        ELSE c

\* configs{options} and resolveConfigLoaders(&options), which reads the
\* profile variable of the environment and the profile of the options.
ResolveConfigLoadersFromSources ==
    /\ ppc = "optFns"
    /\ optFns = <<>>
    /\ cs' = <<"LoadOptions">>
    /\ loaders' = resolveConfigLoaders(environ["CYBR_PROFILE"] # <<>>
                                         \/ options.SharedConfigProfile # <<>>)
    /\ ppc' = "loaders"
    /\ UNCHANGED <<shared, optFns, resolvers, query, locals, cfg, stepErr, out>>

\* loadSharedConfig calls the getter at locals.at on the sources.
GetFromSources ==
    /\ ppc = "loaders"
    /\ loaders # <<>>
    /\ Head(loaders) \in Loaders
    /\ locals.at \in SharedConfigGetters
    /\ LET r == getFromSources(locals.at)
       IN  /\ query' = [cap |-> locals.at, answers |-> SourceAnswers(locals.at),
                        result |-> r]
           /\ locals' = AfterGetter(r, r.value = <<TRUE>>)
    /\ UNCHANGED <<shared, ppc, stepErr, out, optFns, loaders, resolvers, cs, cfg>>

\* loadSharedConfig calls LoadSharedConfigProfile with what the getters gave.
CallLoadSharedConfigProfile ==
    /\ ppc = "loaders"
    /\ loaders # <<>>
    /\ Head(loaders) \in Loaders
    /\ locals.at = "LoadSharedConfigProfile"
    /\ pc = "idle"
    /\ profile' = locals.profile
    /\ configFiles' = filesOrDefault(locals.configFiles, DefaultSharedConfigFiles)
    /\ credentialsFiles' =
           filesOrDefault(locals.credentialsFiles, DefaultSharedCredentialsFiles)
    /\ loader' = Head(loaders)
    /\ logger' = (locals.logger # <<>>)
    /\ pc' = "loadConfig"
    /\ idx' = 1
    /\ configSections' = NewSections
    /\ credentialsSections' = NewSections
    /\ stack' = <<>>
    /\ callProfile' = <<>>
    /\ profiles' = {}
    /\ ret' = NoResult
    /\ result' = NoResult
    /\ loaded' = NotLoaded
    /\ logged' = <<>>
    /\ UNCHANGED <<options, environ, pipeline>>

\* The loader has returned: its record is appended to the sources, or its
\* error ends AppendFromLoaders and LoadDefaultConfig.
AppendSharedConfig ==
    /\ ppc = "loaders"
    /\ loaders # <<>>
    /\ Head(loaders) \in Loaders
    /\ locals.at = "LoadSharedConfigProfile"
    /\ pc = "loaded"
    /\ IF loaded.err # NoErr
       THEN Fail(loaded.err) /\ UNCHANGED <<cs, loaders>>
       ELSE /\ cs' = Append(cs, "SharedConfig")
            /\ loaders' = Tail(loaders)
            /\ UNCHANGED <<ppc, stepErr, out>>
    /\ locals' = NoLocals
    /\ query' = NoQuery
    /\ UNCHANGED <<shared, optFns, resolvers, cfg>>

\* One resolver of the list, resolveCredentials excepted, on the sources.
ResolveFromSources ==
    /\ ppc = "resolvers"
    /\ resolvers # <<>>
    /\ Head(resolvers) # "Credentials"
    /\ resolvers' = Tail(resolvers)
    /\ LET r == getFromSources(Head(resolvers))
       IN  /\ query' = [cap |-> Head(resolvers),
                        answers |-> SourceAnswers(Head(resolvers)), result |-> r]
           /\ cfg' = resolveValue(cfg, Head(resolvers), r)
    /\ UNCHANGED <<shared, ppc, stepErr, out, optFns, loaders, cs, locals>>

\* resolveCredentials on the sources.
ResolveCredentialsFromSources ==
    /\ ppc = "resolvers"
    /\ resolvers # <<>>
    /\ Head(resolvers) = "Credentials"
    /\ resolvers' = Tail(resolvers)
    /\ cfg' = resolveCredentials(cfg)
    /\ query' = NoQuery
    /\ UNCHANGED <<shared, ppc, stepErr, out, optFns, loaders, cs, locals>>

\* Values for the fields of the configuration in the options, in the
\* environment and in the profile a of the files.
InitPrecedence ==
    /\ \E d \in {<<>>, <<"options", "domain">>},
          sd \in {<<>>, <<"options", "subdomain">>},
          c \in {<<>>, <<[NoCredentials EXCEPT !.Source = <<"options">>]>>},
          p \in {<<>>, nameA},
          f \in {NilFiles, Files(<<<<"config", "DS">>>>)} :
           options = [NoOptions EXCEPT !.Domain = d, !.Subdomain = sd, !.Credentials = c,
                                       !.SharedConfigProfile = p, !.SharedConfigFiles = f]
    /\ \E u \in {<<>>, <<"env", "username">>}, pw \in {<<>>, <<"env", "password">>},
          d \in {<<>>, <<"env", "domain">>}, dd \in {<<>>, <<"env", "default domain">>},
          sd \in {<<>>, <<"env", "subdomain">>} :
           environ = [NoEnviron EXCEPT !["CYBR_USERNAME"] = u, !["CYBR_PASSWORD"] = pw,
                                       !["CYBR_DOMAIN"] = d,
                                       !["CYBR_DEFAULT_DOMAIN"] = dd,
                                       !["CYBR_SUBDOMAIN"] = sd]

\* A profile and lists of files in the options and in the environment.
InitProfileSources ==
    /\ \E p \in {<<>>, nameA, nameB},
          f \in {NilFiles, Files(<<>>), Files(<<<<"config", "DS">>>>)},
          g \in {NilFiles, Files(<<>>)} :
           options = [NoOptions EXCEPT !.SharedConfigProfile = p, !.SharedConfigFiles = f,
                                       !.SharedCredentialsFiles = g]
    /\ \E p \in {<<>>, nameA, nameB}, dp \in {<<>>, nameA, nameB},
          f \in {<<>>, <<"config", "N", {Prefixed(nameB)}>>},
          g \in {<<>>, <<"credentials", "L">>} :
           environ = [NoEnviron EXCEPT !["CYBR_PROFILE"] = p,
                                       !["CYBR_DEFAULT_PROFILE"] = dp,
                                       !["CYBR_CONFIG_FILE"] = f,
                                       !["CYBR_SHARED_CREDENTIALS_FILE"] = g]

\* LoadDefaultConfig has applied its option functions to the options.
InitFromSources ==
    /\ InitPrecedence \/ InitProfileSources
    /\ ppc = "optFns"
    /\ optFns = <<>>
    /\ loaders = <<>>
    /\ resolvers = <<>>
    /\ cs = <<>>
    /\ query = NoQuery
    /\ locals = NoLocals
    /\ cfg = ZeroConfig
    /\ stepErr = NoErr
    /\ out = NotReturned
    /\ SharedIdle

NextFromSources ==
    \/ ResolveConfigLoadersFromSources
    \/ LoadEnvConfig
    \/ GetFromSources
    \/ CallLoadSharedConfigProfile
    \/ Next
    \/ AppendSharedConfig
    \/ ResolveCYBRConfig
    \/ ResolveFromSources
    \/ ResolveCredentialsFromSources
    \/ ReturnConfig

SpecFromSources == InitFromSources /\ [][NextFromSources]_vars

\* ================================================================ claims
\* The source_profile link of a section of the resolved table, or nothing.
LinkOf(name) ==
    IF HasSection(configSections, name) /\ Has(configSections[name], sourceProfileKey)
    THEN configSections[name].values[sourceProfileKey]
    ELSE <<>>

\* The requested profile lies on a cycle of length one or two.
ProfileOnCycle ==
    \/ LinkOf(profile) = profile
    \/ (LinkOf(profile) # <<>> /\ LinkOf(LinkOf(profile)) = profile)

Resolving == pc \in {"call", "return", "done"}

\* C1: when the requested profile A links to B and B links back to A (or A
\* links to itself), resolving A ends with a link error, and no call of the
\* resolver is made for a profile name that is already in the visited set.
C1_CycleFailsWithLinkError ==
    /\ (pc = "done" /\ ProfileOnCycle
            /\ \A n \in DOMAIN configSections : configSections[n].Errors = <<>>)
         => result.err.kind = "SharedConfigLinkError"
    /\ (pc = "call" => callProfile \notin profiles)

\* C2: the number of nested source_profile steps of one resolution never
\* exceeds the number of distinct profile names of the merged table.
C2_StepsBoundedByProfiles ==
    Resolving => Len(stack) <= Cardinality(DOMAIN configSections)

\* ------------------------------------------- the inputs, seen from outside
\* The table a file contributes: nothing for a file that cannot be read.
FileTable(f) == IF Unreadable(f) THEN NewSections ELSE OpenFile(f)

Defines(f, name) == name \in DOMAIN FileTable(f)

DefinesKey(f, name, key) == Defines(f, name) /\ Has(FileTable(f)[name], key)

\* The file gives the section exactly one of cybr_username and cybr_password.
GivesOnlyUsername(f, name) ==
    DefinesKey(f, name, usernameKey) /\ ~DefinesKey(f, name, passwordKey)

GivesOnlyPassword(f, name) ==
    DefinesKey(f, name, passwordKey) /\ ~DefinesKey(f, name, usernameKey)

GivesHalf(f, name) == GivesOnlyUsername(f, name) \/ GivesOnlyPassword(f, name)

GivesPair(f, name) ==
    DefinesKey(f, name, usernameKey) /\ DefinesKey(f, name, passwordKey)

\* The files of both lists, each with the name under which it has to write
\* the profile p for the profile to be resolvable as p.
ProfileSources(p) ==
    {<<configFiles[i], Prefixed(p)>> : i \in 1..Len(configFiles)}
        \cup {<<credentialsFiles[i], p>> : i \in 1..Len(credentialsFiles)}

DefiningSources(p) == {fs \in ProfileSources(p) : Defines(fs[1], fs[2])}

HasPartialError(section) ==
    \E i \in 1..Len(section.Errors) : section.Errors[i].kind = "partial credentials"

\* The merge steps, with their source and destination tables.
MergingConfig == pc = "loadConfig" /\ idx <= Len(configFiles)
MergingCredentials == pc = "loadCredentials" /\ idx <= Len(credentialsFiles)
MergingCategories == pc = "merge"
IsMergeStep == MergingConfig \/ MergingCredentials \/ MergingCategories

StepSrc ==
    IF MergingConfig THEN FileTable(configFiles[idx])
    ELSE IF MergingCredentials THEN FileTable(credentialsFiles[idx])
    ELSE credentialsSections

StepDst == IF MergingCredentials THEN credentialsSections ELSE configSections
StepDstNew == IF MergingCredentials THEN credentialsSections' ELSE configSections'

\* C3: a section flagged with a partial-credentials error keeps that error
\* through every later merge into it, and resolving a profile that some file
\* flagged in this way fails.
C3_MergeKeepsPartialError ==
    IsMergeStep =>
        \A n \in (DOMAIN StepDst) \cap (DOMAIN StepDstNew) :
            HasPartialError(StepDst[n]) => HasPartialError(StepDstNew[n])

C3_FlaggedProfileFails ==
    (pc = "done" /\ \E fs \in ProfileSources(profile) : GivesHalf(fs[1], fs[2]))
        => result.err # NoErr

C3_PartialErrorPersists ==
    [][C3_MergeKeepsPartialError]_vars /\ [](C3_FlaggedProfileFails)

\* C4: when the files that define the requested profile each give it one
\* half of the credential pair, one only cybr_username and another only
\* cybr_password, the merged section never holds both keys and the load
\* fails with the partial-credentials error that names the profile.
SplitHalves ==
    /\ \A fs \in DefiningSources(profile) : GivesHalf(fs[1], fs[2])
    /\ \E fs \in DefiningSources(profile) : GivesOnlyUsername(fs[1], fs[2])
    /\ \E fs \in DefiningSources(profile) : GivesOnlyPassword(fs[1], fs[2])

IsPartialCredentialsFailure(err, p) ==
    /\ err.kind = "error fetching config from profile"
    /\ err.Profile = p
    /\ err.Err[1].kind = "Error using profile"
    /\ err.Err[1].Err[1].kind = "partial credentials"
    /\ TrimPrefix(err.Err[1].Err[1].profile, profilePrefix) = p

RECURSIVE LastDefining(_, _, _, _)
LastDefining(list, upto, name, key) ==
    IF upto = 0 THEN 0
    ELSE IF DefinesKey(list[upto], name, key) THEN upto
    ELSE LastDefining(list, upto - 1, name, key)

SingleKeys == {stringKeys[i] : i \in 1..Len(stringKeys)}

ListLastWins(list, upto, table) ==
    \A n \in UNION {DOMAIN FileTable(list[i]) : i \in 1..upto} :
        \A key \in SingleKeys :
            LET last == LastDefining(list, upto, n, key)
            IN  last > 0 =>
                    /\ HasSection(table, n)
                    /\ Has(table[n], key)
                    /\ table[n].values[key] = FileTable(list[last])[n].values[key]
                    /\ table[n].SourceFile[key] = list[last]

C5_LaterFileWins ==
    /\ pc = "loadConfig" => ListLastWins(configFiles, idx - 1, configSections)
    /\ pc = "loadCredentials" => ListLastWins(credentialsFiles, idx - 1, credentialsSections)

\* Witness of C5: two different config files define domain for the same
\* section and the table holds the value of the second.
C5_Witness ==
    /\ pc = "loadConfig"
    /\ idx = 3
    /\ configFiles[1] # configFiles[2]
    /\ DefinesKey(configFiles[1], Prefixed(nameA), domainKey)
    /\ DefinesKey(configFiles[2], Prefixed(nameA), domainKey)
    /\ configSections[Prefixed(nameA)].SourceFile[domainKey] = configFiles[2]
    /\ configSections[Prefixed(nameA)].values[domainKey] =
            <<domainKey, configFiles[2], Prefixed(nameA)>>

\* C6: whenever a section of a table holds both cybr_username and
\* cybr_password, one listed file wrote both values and is the recorded
\* origin of both; and merging a file that gives a section only one of the
\* two leaves both members of the destination section as they were.
AllKeys ==
    {usernameKey, passwordKey, sessionTokenKey, sourceProfileKey, domainKey, subdomainKey}

ListedFiles ==
    {configFiles[i] : i \in 1..Len(configFiles)}
        \cup {credentialsFiles[i] : i \in 1..Len(credentialsFiles)}

PairFromOneFile(section) ==
    (Has(section, usernameKey) /\ Has(section, passwordKey)) =>
        \E f \in ListedFiles : \E n \in DOMAIN FileTable(f) :
            /\ GivesPair(f, n)
            /\ section.values[usernameKey] = FileTable(f)[n].values[usernameKey]
            /\ section.values[passwordKey] = FileTable(f)[n].values[passwordKey]
            /\ section.SourceFile[usernameKey] = f
            /\ section.SourceFile[passwordKey] = f

C6_PairsAreWhole ==
    /\ \A n \in DOMAIN configSections : PairFromOneFile(configSections[n])
    /\ \A n \in DOMAIN credentialsSections : PairFromOneFile(credentialsSections[n])

SameMember(old, new, key) ==
    /\ Has(new, key) = Has(old, key)
    /\ String(new, key) = String(old, key)
    /\ SourceFileOf(new, key) = SourceFileOf(old, key)

C6_HalfChangesNothing ==
    IsMergeStep =>
        \A n \in (DOMAIN StepDst) \cap (DOMAIN StepSrc) :
            (Has(StepSrc[n], usernameKey) # Has(StepSrc[n], passwordKey)) =>
                /\ SameMember(StepDst[n], StepDstNew[n], usernameKey)
                /\ SameMember(StepDst[n], StepDstNew[n], passwordKey)

C6_CredentialPairWhole ==
    [](C6_PairsAreWhole) /\ [][C6_HalfChangesNothing]_vars

\* Witness of C6: a file with the pair, then a file with only one member,
\* have been merged and the section holds the pair.
C6_Witness ==
    /\ pc = "loadCredentials"
    /\ idx = 3
    /\ GivesPair(credentialsFiles[1], nameA)
    /\ GivesHalf(credentialsFiles[2], nameA)
    /\ Has(credentialsSections[nameA], usernameKey)
    /\ Has(credentialsSections[nameA], passwordKey)

\* C7: when the config table is merged with the credentials table, a
\* section present in both takes from the credentials section every single
\* key it defines and its complete credential pair (with the session token
\* it defines beside the pair); every other key of the config section keeps
\* its value and origin.
TakenFromCredentials(credSection, key) ==
    IF key \in {usernameKey, passwordKey, sessionTokenKey}
    THEN Has(credSection, usernameKey) /\ Has(credSection, passwordKey)
            /\ Has(credSection, key)
    ELSE Has(credSection, key)

C7_MergeOfCategories ==
    MergingCategories =>
        \A n \in (DOMAIN configSections) \cap (DOMAIN credentialsSections) :
            /\ n \in DOMAIN configSections'
            /\ \A key \in AllKeys :
                IF TakenFromCredentials(credentialsSections[n], key)
                THEN /\ Has(configSections'[n], key)
                     /\ configSections'[n].values[key] = credentialsSections[n].values[key]
                     /\ configSections'[n].SourceFile[key] =
                            credentialsSections[n].SourceFile[key]
                ELSE SameMember(configSections[n], configSections'[n], key)

C7_CredentialsFileWins == [][C7_MergeOfCategories]_vars

\* Witness of C7: the requested profile is defined in both categories, a key
\* defined in both has the credentials file as origin, and another key is
\* still the one of the config file.
C7_Witness ==
    /\ pc = "call"
    /\ HasSection(configSections, profile)
    /\ HasSection(credentialsSections, profile)
    /\ \E k1, k2 \in AllKeys :
        /\ Has(configSections[profile], k1)
        /\ Has(configSections[profile], k2)
        /\ configSections[profile].SourceFile[k1][1] = "credentials"
        /\ \E i \in 1..Len(configFiles) : DefinesKey(configFiles[i], Prefixed(profile), k1)
        /\ configSections[profile].SourceFile[k2][1] = "config"

\* C8: merging a file that is listed twice in a row leaves, the second time,
\* the set of sections, every key's value and every section's errors as they
\* were after the first time.
SameContent(old, new) ==
    /\ DOMAIN new = DOMAIN old
    /\ \A n \in DOMAIN old :
        /\ new[n].values = old[n].values
        /\ new[n].Errors = old[n].Errors

C8_SecondMerge ==
    /\ (MergingConfig /\ idx > 1 /\ configFiles[idx] = configFiles[idx - 1])
            => SameContent(configSections, configSections')
    /\ (MergingCredentials /\ idx > 1 /\ credentialsFiles[idx] = credentialsFiles[idx - 1])
            => SameContent(credentialsSections, credentialsSections')

C8_SameFileTwice == [][C8_SecondMerge]_vars

\* Witness of C8: a file with a partial credential group has been merged
\* twice in a row into the table, which logged the second merge.
C8_Witness ==
    /\ pc = "loadConfig"
    /\ idx >= 3
    /\ configFiles[idx - 1] = configFiles[idx - 2]
    /\ \E n \in DOMAIN configSections :
        /\ Len(configSections[n].Logs) > 0
        /\ HasPartialError(configSections[n])

\* C9: every overwrite of a key by a merge, of a member of the credential
\* group as of a single key, appends exactly one log entry to the
\* destination section that names the key, the file that defined it before
\* and the overriding file.
Overwritten(dstSection, srcSection, key) ==
    /\ Has(dstSection, key)
    /\ Has(srcSection, key)
    /\ (key \in {usernameKey, passwordKey, sessionTokenKey} =>
            (Has(srcSection, usernameKey) /\ Has(srcSection, passwordKey)))

NewLogs(old, new) == SubSeq(new.Logs, Len(old.Logs) + 1, Len(new.Logs))

C9_OverwriteLogged ==
    IsMergeStep =>
        \A n \in (DOMAIN StepDst) \cap (DOMAIN StepSrc) :
            \A key \in AllKeys :
                Overwritten(StepDst[n], StepSrc[n], key) =>
                    LET logs == NewLogs(StepDst[n], StepDstNew[n])
                    IN  Cardinality({i \in 1..Len(logs) :
                            /\ logs[i].kind = "override"
                            /\ logs[i].key = key
                            /\ logs[i].prev = SourceFileOf(StepDst[n], key)
                            /\ logs[i].by = SourceFileOf(StepSrc[n], key)}) = 1

C9_EveryOverwriteLogged == [][C9_OverwriteLogged]_vars

\* C10: config-file normalisation keeps a section only if its name in the
\* file was exactly `default`, or the profile prefix followed by a name that
\* is not empty after trimming.
RECURSIVE TrimLeft(_)
TrimLeft(s) == IF s # <<>> /\ Head(s) = " " THEN TrimLeft(Tail(s)) ELSE s

RECURSIVE TrimRight(_)
TrimRight(s) ==
    IF s # <<>> /\ s[Len(s)] = " " THEN TrimRight(SubSeq(s, 1, Len(s) - 1)) ELSE s

TrimSpace(s) == TrimRight(TrimLeft(s))

ValidConfigName(name) ==
    \/ name = DefaultSharedConfigProfile
    \/ (HasPrefix(name, profilePrefix)
            /\ Len(TrimSpace(TrimPrefix(name, profilePrefix))) > 0)

NormalizingConfig == pc = "loadConfig" /\ idx > Len(configFiles)

\* The section written under `name` is in the normalised table.
Survives(name) ==
    LET n == TrimPrefix(name, profilePrefix)
    IN  /\ n \in DOMAIN configSections'
        /\ configSections'[n].values = configSections[name].values

C10_Normalized ==
    NormalizingConfig =>
        \A name \in DOMAIN configSections : Survives(name) => ValidConfigName(name)

C10_OnlyValidNamesSurvive == [][C10_Normalized]_vars

\* --------------------------------------------------------------- C11
NormalizedConfig == NormalizingConfig /\ pc' = "loadCredentials"

\* The content of the section `old` of the table before normalisation is
\* found under the name `new` after it, and under no other name.
MovedTo(old, new) ==
    /\ HasSection(configSections', new)
    /\ configSections'[new].values = configSections[old].values
    /\ \A n \in DOMAIN configSections' \ {new} :
           configSections'[n].values # configSections[old].values

C11_PrefixedMoved ==
    \A o \in DOMAIN configSections :
        HasPrefix(o, profilePrefix) => MovedTo(o, TrimPrefix(o, profilePrefix))

WrittenTwice ==
    {X \in DOMAIN configSections :
        ~HasPrefix(X, profilePrefix) /\ HasSection(configSections, Prefixed(X))}

HasReplaceLog(section) == \E i \in 1..Len(section.Logs) : section.Logs[i].kind = "replace"

KeepsPrefixedOnly(X) ==
    /\ HasSection(configSections', X)
    /\ configSections'[X].values = configSections[Prefixed(X)].values
    /\ configSections'[X].Name = X

\* The unprefixed section is still in the table when `profile X` is renamed:
\* it is kept as a default section, or it is listed after `profile X`.
CollidesAtRename(X) ==
    EqualFold(X, DefaultSharedConfigProfile) \/ StrLess(Prefixed(X), X)

NormalizingCredentials == pc = "loadCredentials" /\ idx > Len(credentialsFiles)

\* The prefixed sections are gone, every other section is as it was.
C13_OnlyPrefixedDeleted ==
    NormalizingCredentials =>
        /\ DOMAIN credentialsSections' =
               {n \in DOMAIN credentialsSections : ~HasPrefix(n, profilePrefix)}
        /\ \A n \in DOMAIN credentialsSections' :
               credentialsSections'[n] = credentialsSections[n]

\* The requested profile is X or `profile X` for a section `profile X` of a
\* credentials file, and no listed file defines it in another way.
OnlyPrefixedInCredentials ==
    /\ \E i \in 1..Len(credentialsFiles) :
           \/ Defines(credentialsFiles[i], Prefixed(profile))
           \/ HasPrefix(profile, profilePrefix) /\ Defines(credentialsFiles[i], profile)
    /\ \A i \in 1..Len(credentialsFiles) :
           HasPrefix(profile, profilePrefix) \/ ~Defines(credentialsFiles[i], profile)
    /\ \A i \in 1..Len(configFiles) :
           /\ ~Defines(configFiles[i], profile)
           /\ ~Defines(configFiles[i], Prefixed(profile))

\* C13: the normalisation of the credentials table deletes every section
\* whose name begins with the profile prefix and leaves every other section
\* unchanged, and a profile defined only as `profile X` in a credentials
\* file is found neither as X nor as `profile X`.
C13_CredentialsPrefixDropped ==
    /\ [][C13_OnlyPrefixedDeleted]_vars
    /\ [](pc = "done" /\ OnlyPrefixedInCredentials =>
              result.err = SharedConfigProfileNotExistError(profile))

\* The load of a, written only as `profile a` in the credentials file, has
\* failed, and the unprefixed section `profile` of that file is in the table.
C13_Witness ==
    /\ pc = "done"
    /\ profile = nameA
    /\ OnlyPrefixedInCredentials
    /\ Defines(credentialsFiles[1], nameProfile)
    /\ HasSection(configSections, nameProfile)
    /\ result.err = SharedConfigProfileNotExistError(nameA)

\* --------------------------------------------------------------- C14
\* The table obtained by normalising the sections of each file of the list
\* and folding the normalised tables together in list order.
RECURSIVE NormalizeThenFold(_, _)
NormalizeThenFold(acc, list) ==
    IF list = <<>> THEN acc
    ELSE NormalizeThenFold(
             mergeSections(acc, processConfigSections(FileTable(Head(list))).sections),
             Tail(list))

ValuesOf(table) == [n \in DOMAIN table |-> table[n].values]

\* C14: the normalised config table has the section names, keys and values
\* of the table obtained by normalising each config file of the list on its
\* own and folding the files together afterwards.
C14_NormalizedBeforeFold ==
    pc = "loadCredentials" =>
        ValuesOf(configSections) = ValuesOf(NormalizeThenFold(NewSections, configFiles))

\* --------------------------------------------------------------- C15
\* The files have been loaded and merged and the resolution has run.
TableMerged == ret # NoResult

ProfileAbsent == TableMerged /\ ~HasSection(configSections, profile)

\* C15: the load of a profile that the merged table does not hold fails
\* with the profile-not-found error of that profile; the ignore-not-exist
\* loader returns the empty shared configuration and no error instead.
C15_AbsentProfile ==
    pc = "loaded" /\ ProfileAbsent =>
        /\ result.err = SharedConfigProfileNotExistError(profile)
        /\ loader = "loadSharedConfig" =>
               loaded.err = SharedConfigProfileNotExistError(profile)
        /\ loader = "loadSharedConfigIgnoreNotExist" =>
               loaded = [cfg |-> <<ZeroSharedConfig>>, err |-> NoErr]

\* Every listed file is missing and the ignore-not-exist loader has
\* returned the empty shared configuration.
C15_Witness ==
    /\ pc = "loaded"
    /\ loader = "loadSharedConfigIgnoreNotExist"
    /\ Len(configFiles) > 0 /\ Len(credentialsFiles) > 0
    /\ \A i \in 1..Len(configFiles) : Unreadable(configFiles[i])
    /\ \A i \in 1..Len(credentialsFiles) : Unreadable(credentialsFiles[i])
    /\ result.err = SharedConfigProfileNotExistError(profile)
    /\ loaded = [cfg |-> <<ZeroSharedConfig>>, err |-> NoErr]

\* --------------------------------------------------------------- C16
IsLinkError(err) == err.kind = "SharedConfigLinkError"

IsLoadError(err) == err.kind = "SharedConfigLoadError"

WrapsNotExist(err) ==
    err.Err # <<>> /\ err.Err[1].kind = "SharedConfigProfileNotExistError"

\* C16: the ignore-not-exist loader returns a partial-credentials error, a
\* file load error and a link error (also one that wraps a not-found error)
\* as errors, and it returns no error for a failed load only when the
\* requested profile itself was not found.
C16_OnlyNotExistIgnored ==
    pc = "loaded" /\ loader = "loadSharedConfigIgnoreNotExist" =>
        /\ \/ IsPartialCredentialsFailure(result.err, profile)
           \/ IsLoadError(result.err)
           \/ IsLinkError(result.err)
           => loaded = [cfg |-> <<>>, err |-> result.err]
        /\ result.err # NoErr /\ loaded.err = NoErr =>
               /\ result.err = SharedConfigProfileNotExistError(profile)
               /\ ~HasSection(configSections, profile)

\* The ignore-not-exist loader has returned a link error that wraps the
\* not-found error of the link target.
C16_Witness ==
    /\ pc = "loaded"
    /\ loader = "loadSharedConfigIgnoreNotExist"
    /\ IsLinkError(loaded.err)
    /\ WrapsNotExist(loaded.err)
    /\ HasSection(configSections, profile)

C16_WitnessLoadError ==
    pc = "loaded" /\ loader = "loadSharedConfigIgnoreNotExist" /\ IsLoadError(loaded.err)

C16_WitnessPartial ==
    /\ pc = "loaded"
    /\ loader = "loadSharedConfigIgnoreNotExist"
    /\ IsPartialCredentialsFailure(loaded.err, profile)

\* --------------------------------------------------------------- C17
SectionHasPair(name) ==
    Has(configSections[name], usernameKey) /\ Has(configSections[name], passwordKey)

\* The resolver follows the link of the profile: its section is in the
\* table without errors, has a source_profile, and the profile is the
\* requested one or has no complete pair.
Followed(name, top) ==
    /\ HasSection(configSections, name)
    /\ configSections[name].Errors = <<>>
    /\ top \/ ~SectionHasPair(name)
    /\ LinkOf(name) # <<>>

\* The profile at which the chain of followed links ends.
RECURSIVE LastFollowed(_, _, _)
LastFollowed(name, top, n) ==
    IF n > 0 /\ Followed(name, top)
    THEN LastFollowed(LinkOf(name), FALSE, n - 1)
    ELSE name

ChainEnd == LastFollowed(profile, TRUE, MaxDepth)

\* The section resolves and has neither a complete pair nor a link.
WithoutCredentials(name) ==
    /\ HasSection(configSections, name)
    /\ configSections[name].Errors = <<>>
    /\ ~SectionHasPair(name)
    /\ LinkOf(name) = <<>>

\* The profile at which the chain of source_profile links ends, whether or
\* not the profiles on it have a pair of their own.
Linked(name) ==
    /\ HasSection(configSections, name)
    /\ configSections[name].Errors = <<>>
    /\ LinkOf(name) # <<>>

RECURSIVE LastLinked(_, _)
LastLinked(name, n) ==
    IF n > 0 /\ Linked(name) THEN LastLinked(LinkOf(name), n - 1) ELSE name

LinkEnd == LastLinked(profile, MaxDepth)

C17_WitnessWithoutCredentials ==
    /\ pc = "done"
    /\ Followed(profile, TRUE)
    /\ WithoutCredentials(ChainEnd)
    /\ result.err = SharedConfigLinkError(ChainEnd, <<>>)

\* --------------------------------------------------------------- C18
Resolved == pc = "done" /\ TableMerged /\ result.err = NoErr

HasLinkName(r) == Len(r.SourceProfileName) # 0

\* The record has no credentials of its own and its Source is the record
\* of the profile its link names.
LinkedToSource(r) ==
    /\ r.Credentials = NoCredentials
    /\ r.Source # <<>>
    /\ r.Source[1].Profile = r.SourceProfileName

\* The record keeps its own pair and has no Source.
EndsWithOwnPair(r) == HasKeys(r.Credentials) /\ r.Source = <<>>

RECURSIVE EveryLinkAttached(_)
EveryLinkAttached(r) ==
    /\ HasLinkName(r) => LinkedToSource(r)
    /\ r.Source # <<>> => EveryLinkAttached(r.Source[1])

RECURSIVE EveryFollowedLinkAttached(_, _)
EveryFollowedLinkAttached(r, top) ==
    /\ HasLinkName(r) =>
           IF ~top /\ SectionHasPair(r.Profile)
           THEN EndsWithOwnPair(r)
           ELSE LinkedToSource(r)
    /\ r.Source # <<>> => EveryFollowedLinkAttached(r.Source[1], FALSE)

FirstFound(answers) ==
    IF \E i \in 1..Len(answers) : answers[i] = "found"
    THEN CHOOSE i \in 1..Len(answers) :
             /\ answers[i] = "found"
             /\ \A j \in 1..(i - 1) : answers[j] # "found"
    ELSE 0

ErrorBefore(answers, i) == \E j \in 1..(i - 1) : answers[j] = "error"

\* The fields of cybr.Config that the getter-based resolvers write.
ResolvedFields == {"SubDomain", "Domain", "Logger", "ClientLogMode", "HTTPClient", "APIOptions"}

\* C19: when a source reports a value for the capability a step asks for,
\* and no source before it fails, the step takes the value of the first
\* such source in list order, asks no source after it, skips the sources
\* before it that lack the capability or report not-found, and is not
\* affected by an error of a later source.
C19_FirstFoundWins ==
    LET f == FirstFound(query.answers)
    IN  query.cap # "" /\ f # 0 /\ ~ErrorBefore(query.answers, f) =>
            /\ query.result.found
            /\ query.result.value = ProviderValue(query.cap, f)
            /\ query.result.err = NoErr
            /\ query.result.asked = {i \in 1..f : query.answers[i] # "lacks"}
            /\ stepErr = NoErr
            /\ query.cap \in ResolvedFields => cfg[query.cap] = ProviderValue(query.cap, f)
            /\ locals.at = "getSharedConfigFiles" =>
                   locals.profile = ProviderValue(query.cap, f)
            /\ locals.at = "getSharedCredentialsFiles" =>
                   locals.configFiles = ProviderValue(query.cap, f)
            /\ locals.at = "getLogConfigurationWarnings" =>
                   locals.credentialsFiles = ProviderValue(query.cap, f)

\* The first source reported not-found, the second a domain, the third
\* failed: the domain is that of the second source and the load goes on.
C19_Witness ==
    /\ query.cap = "Domain"
    /\ query.answers = <<"notfound", "found", "error">>
    /\ cfg.Domain = ProviderValue("Domain", 2)
    /\ ppc = "resolvers"
    /\ stepErr = NoErr

C19_WitnessProfile ==
    /\ query.cap = "getSharedConfigProfile"
    /\ query.answers = <<"lacks", "found">>
    /\ locals.profile = ProviderValue("getSharedConfigProfile", 2)

\* --------------------------------------------------------------- C20
\* The caller of LoadDefaultConfig has received an error.
LoadFailed == stepErr # NoErr

\* C20: when an option function, a loader or a resolver returns an error
\* the load ends with that step, the caller receives the error and the zero
\* configuration, and nothing runs afterwards; LoadSharedConfigProfile
\* returns the zero shared configuration with every error.
C20_ErrorStopsLoad ==
    /\ [](LoadFailed => ppc = "returned" /\ out = [cfg |-> ZeroConfig, err |-> stepErr])
    /\ [](out.err # NoErr => LoadFailed)
    /\ [][LoadFailed => UNCHANGED vars]_vars
    /\ [](pc \in {"done", "loaded"} /\ ret.err # NoErr =>
              result = [cfg |-> ZeroSharedConfig, err |-> ret.err])
    /\ [](result.err # NoErr => pc \in {"done", "loaded"} /\ result.cfg = ZeroSharedConfig)

\* A resolver has failed after an earlier resolver wrote a field and before
\* the last resolvers have run; the caller has the zero configuration.
C20_Witness ==
    /\ LoadFailed
    /\ query.cap = "Logger"
    /\ cfg.Domain # <<>>
    /\ resolvers # <<>>
    /\ out.cfg = ZeroConfig
    /\ out.err = ProviderError("Logger", 1)

C20_WitnessLoader ==
    LoadFailed /\ loaders # <<>> /\ out.err.kind = "SharedConfigLinkError"

\* --------------------------------------------------------------- C29
\* setFromIniSections is about to run for a linked profile whose section
\* has both cybr_username and cybr_password.
LinkedCallWithPair ==
    /\ pc = "call"
    /\ Cardinality(profiles) # 0
    /\ HasSection(configSections, callProfile)
    /\ SectionHasPair(callProfile)

\* The call returns the record of callProfile with the pair of its section,
\* with its link name and without a Source, and makes no further call.
ReturnsOwnPair ==
    /\ pc' = "return"
    /\ stack' = stack
    /\ callProfile' = callProfile
    /\ ret'.err = NoErr
    /\ ret'.cfg.Profile = callProfile
    /\ ret'.cfg.Credentials.Username = String(configSections[callProfile], usernameKey)
    /\ ret'.cfg.Credentials.Password = String(configSections[callProfile], passwordKey)
    /\ ret'.cfg.SourceProfileName = LinkOf(callProfile)
    /\ ret'.cfg.Source = <<>>

\* The last record on the path of Source pointers.
RECURSIVE LastRecord(_)
LastRecord(r) == IF r.Source = <<>> THEN r ELSE LastRecord(r.Source[1])

\* The first profile with a complete pair on the chain of links from name.
RECURSIVE FirstWithPair(_, _)
FirstWithPair(name, n) ==
    IF n = 0 \/ ~HasSection(configSections, name) \/ SectionHasPair(name) THEN name
    ELSE FirstWithPair(LinkOf(name), n - 1)

\* The credentials of a resolved chain are those of the first linked
\* profile with a complete pair.
UsesFirstPair ==
    Resolved /\ Followed(profile, TRUE) =>
        LET e == LastRecord(result.cfg)
        IN  /\ e.Profile = FirstWithPair(LinkOf(profile), MaxDepth)
            /\ e.Credentials.Username = String(configSections[e.Profile], usernameKey)
            /\ e.Credentials.Password = String(configSections[e.Profile], passwordKey)
            /\ e.Source = <<>>

\* C29 as stated: the call of the resolver for a linked profile whose
\* section has a complete pair returns that record with its own credentials,
\* follows no further link and attaches no Source, and the credentials of a
\* resolved chain are those of the first linked profile with a complete pair.
C29_PairEndsChain ==
    /\ [][LinkedCallWithPair => ReturnsOwnPair]_vars
    /\ []UsesFirstPair

\* C29 amended: the same, for a linked profile whose section has a complete
\* pair and no recorded partial-credentials error; a section that a later
\* file has flagged as partial fails the resolution instead.
C29_SoundPairEndsChain ==
    /\ [][LinkedCallWithPair /\ configSections[callProfile].Errors = <<>>
              => ReturnsOwnPair]_vars
    /\ [][LinkedCallWithPair /\ configSections[callProfile].Errors # <<>>
              => pc' = "return" /\ ret'.err.kind = "error fetching config from profile"]_vars
    /\ []UsesFirstPair

\* a links to b, b has a complete pair and a link of its own to the absent
\* c: the load succeeds with the pair of b, and the record of b has no Source.
C29_Witness ==
    /\ Resolved
    /\ profile = nameA
    /\ LinkOf(nameA) = nameB
    /\ SectionHasPair(nameB)
    /\ LinkOf(nameB) = nameC
    /\ ~HasSection(configSections, nameC)
    /\ result.cfg.Source # <<>>
    /\ EndsWithOwnPair(result.cfg.Source[1])
    /\ result.cfg.Source[1].SourceProfileName = nameC

\* --------------------------------------------------------------- C30
\* The path of Source pointers from r ends at a record with a complete pair
\* and every record before it has no credentials.
RECURSIVE PathEndsWithPair(_)
PathEndsWithPair(r) ==
    IF r.Source = <<>> THEN HasKeys(r.Credentials)
    ELSE r.Credentials = NoCredentials /\ PathEndsWithPair(r.Source[1])

\* C30: when the resolution of a requested profile with a source_profile
\* link returns without error, the path of Source pointers from the returned
\* record ends at a record with a complete pair, and every record before
\* that one has empty credentials.
C30_ChainEndsWithPair ==
    Resolved /\ HasLinkName(result.cfg) =>
        /\ result.cfg.Source # <<>>
        /\ PathEndsWithPair(result.cfg)

\* a, with a pair of its own, links to b without a pair, b links to c with a
\* pair: the path has the empty records of a and b and ends at c.
C30_Witness ==
    /\ Resolved
    /\ HasLinkName(result.cfg)
    /\ result.cfg.Source # <<>>
    /\ result.cfg.Source[1].Credentials = NoCredentials
    /\ result.cfg.Source[1].Source # <<>>
    /\ HasKeys(result.cfg.Source[1].Source[1].Credentials)

\* --------------------------------------------------------------- C27
\* The value was written in a section of exactly this name, with or
\* without the prefix.
OwnValue(v, name) == v[3] \in {name, Prefixed(name)}

\* Every value of every section of the table was written under the
\* section's own name.
SectionsKeepNames(sections) ==
    \A n \in DOMAIN sections :
        \A k \in DOMAIN sections[n].values \ {sourceProfileKey} :
            OwnValue(sections[n].values[k], n)

\* Every value of the record, and of the records it is linked to, was
\* written under the name of the record's profile.
RECURSIVE RecordKeepsName(_)
RecordKeepsName(r) ==
    /\ r.Domain # <<>> => OwnValue(r.Domain, r.Profile)
    /\ r.Subdomain # <<>> => OwnValue(r.Subdomain, r.Profile)
    /\ r.Credentials.Username # <<>> => OwnValue(r.Credentials.Username, r.Profile)
    /\ r.Credentials.Password # <<>> => OwnValue(r.Credentials.Password, r.Profile)
    /\ r.Source # <<>> => RecordKeepsName(r.Source[1])

\* Two valid section names that differ in letter case only.
CaseVariants == {DefaultSharedConfigProfile, nameDefaultUpper}

Range(seq) == {seq[i] : i \in 1..Len(seq)}

\* The load has ended without error with a logger.
LoadedWithLogger == pc \in {"done", "loaded"} /\ result.err = NoErr /\ logger

\* A config file writes the name, which is not a valid section name of a
\* config file, and no config file writes it with the prefix.
IgnoredInConfig(n) ==
    /\ \E i \in 1..Len(configFiles) : Defines(configFiles[i], n)
    /\ ~HasPrefix(n, profilePrefix)
    /\ ~EqualFold(n, DefaultSharedConfigProfile)
    /\ \A i \in 1..Len(configFiles) : ~Defines(configFiles[i], Prefixed(n))

\* C26: when a load with a logger has ended, every override and collision
\* message recorded on a section of the merged table, whichever section it
\* is, and the message of every section dropped for its name, has been
\* written through the logger.
C26_EveryEventLogged ==
    LoadedWithLogger =>
        /\ \A n \in DOMAIN configSections :
               Range(configSections[n].Logs) \subseteq Range(logged)
        /\ \A i \in 1..Len(configFiles) : \A n \in DOMAIN FileTable(configFiles[i]) :
               IgnoredInConfig(n) => IgnoredLogMessage(n) \in Range(logged)

\* --------------------------------------------------------------- C23
\* The named default resolver takes its step.
DefaultStep(resolver) ==
    /\ ppc = "resolvers"
    /\ resolvers # <<>>
    /\ Head(resolvers) = resolver
    /\ resolvers' = Tail(resolvers)

\* The step has asked the sources and the first source with a default value
\* is not behind a source that failed.
FoundDefault == FirstFound(query'.answers) # 0
                    /\ ~ErrorBefore(query'.answers, FirstFound(query'.answers))

\* The step has asked the sources and none has a default value or failed.
NoDefault == query'.cap # "" /\ \A i \in 1..Len(query'.answers) :
                                    query'.answers[i] \in {"lacks", "notfound"}

\* C23: the default-domain step leaves the configuration as it is when
\* Domain is not empty, and with an empty Domain it sets Domain, and nothing
\* else, to the default domain of the first source that has one.
C23_DefaultDomainFillsEmpty ==
    [][DefaultStep("DefaultDomain") =>
          /\ cfg.Domain # <<>> => cfg' = cfg /\ stepErr' = NoErr /\ query' = NoQuery
          /\ cfg.Domain = <<>> /\ FoundDefault =>
                 cfg' = [cfg EXCEPT !.Domain =
                            ProviderValue("DefaultDomain", FirstFound(query'.answers))]
          /\ cfg.Domain = <<>> /\ NoDefault => cfg' = cfg]_vars

\* The step has run with a domain already resolved, and has run with an
\* empty Domain that it has filled from the second source.
C23_Witness ==
    /\ query.cap = "DefaultDomain"
    /\ query.answers = <<"notfound", "found">>
    /\ cfg.Domain = ProviderValue("DefaultDomain", 2)
    /\ cfg.SubDomain = Earlier("SubDomain")

C23_WitnessKept ==
    /\ resolvers = <<>>
    /\ query = NoQuery
    /\ cfg.Domain = Earlier("Domain")

\* --------------------------------------------------------------- C24
\* C24: the default-subdomain step leaves a non-empty SubDomain as it is,
\* and with an empty SubDomain it sets SubDomain to the default subdomain of
\* the first source that has one, whatever the value of Domain.
C24_DefaultSubdomainFillsEmpty ==
    [][DefaultStep("DefaultSubdomain") =>
          /\ cfg.SubDomain # <<>> => cfg'.SubDomain = cfg.SubDomain
          /\ cfg.SubDomain = <<>> /\ cfg.Domain = <<>> /\ FoundDefault =>
                 cfg'.SubDomain = ProviderValue("DefaultSubdomain", FirstFound(query'.answers))
          /\ cfg.SubDomain = <<>> /\ cfg.Domain # <<>> =>
                 /\ query'.cap = "DefaultSubdomain"
                 /\ FoundDefault =>
                        cfg'.SubDomain =
                            ProviderValue("DefaultSubdomain", FirstFound(query'.answers))]_vars

\* --------------------------------------------------------------- C28
\* A source names the profile to load: the options, the profile variable
\* of the environment, or its default-profile fallback variable.
ProfileSpecified ==
    \/ options.SharedConfigProfile # <<>>
    \/ environ["CYBR_PROFILE"] # <<>>
    \/ environ["CYBR_DEFAULT_PROFILE"] # <<>>

\* LoadDefaultConfig has returned and the profile it looked up is not in
\* the merged table.
ReturnedProfileMissing ==
    /\ ppc = "returned"
    /\ pc = "loaded"
    /\ result.err = SharedConfigProfileNotExistError(profile)

\* C28: when a source specifies a profile name (the options, the profile
\* environment variable or its default-profile fallback variable) and the
\* profile is not in the merged table, LoadDefaultConfig fails; a missing
\* profile is tolerated, and an empty shared configuration used, only when
\* no source specifies a profile.
C28_SpecifiedProfileMustExist ==
    ReturnedProfileMissing =>
        IF ProfileSpecified
        THEN out.err = SharedConfigProfileNotExistError(profile)
        ELSE out.err = NoErr /\ loaded.cfg = <<ZeroSharedConfig>>

\* --------------------------------------------------------------- C25
\* The list of config files, and of credentials files, that the sources
\* supply: that of the options when it is not nil, else the file that the
\* environment names, else nil.
SuppliedConfigFiles ==
    IF ~options.SharedConfigFiles.nil THEN options.SharedConfigFiles
    ELSE IF environ["CYBR_CONFIG_FILE"] # <<>>
    THEN Files(<<environ["CYBR_CONFIG_FILE"]>>)
    ELSE NilFiles

SuppliedCredentialsFiles ==
    IF ~options.SharedCredentialsFiles.nil THEN options.SharedCredentialsFiles
    ELSE IF environ["CYBR_SHARED_CREDENTIALS_FILE"] # <<>>
    THEN Files(<<environ["CYBR_SHARED_CREDENTIALS_FILE"]>>)
    ELSE NilFiles

\* LoadSharedConfigProfile has been called by the loader of LoadDefaultConfig.
ProfileCalled == ppc # "optFns" /\ pc # "idle"

\* The files of a category that LoadSharedConfigProfile loads are the
\* default files when the list supplied is nil, and else those of the list,
\* none when the list is empty.
LoadsSuppliedOrDefault(files, supplied, default) ==
    /\ supplied.nil => files = default
    /\ ~supplied.nil => files = supplied.files
    /\ (~supplied.nil /\ supplied.files = <<>>) => files = <<>>

\* C25: for each file category, the default file list is loaded when no
\* source supplies a list (nil); when a source supplies an empty list, no
\* file of the category is loaded and no default is substituted; and with
\* both lists empty the lookup of any profile, `default` included, ends
\* with the profile-not-found error.
C25_NilListsDefaultEmptyListsStay ==
    ProfileCalled =>
        /\ LoadsSuppliedOrDefault(configFiles, SuppliedConfigFiles,
                                  DefaultSharedConfigFiles)
        /\ LoadsSuppliedOrDefault(credentialsFiles, SuppliedCredentialsFiles,
                                  DefaultSharedCredentialsFiles)
        /\ (SuppliedConfigFiles = Files(<<>>) /\ pc = "loadCredentials") =>
               configSections = NewSections
        /\ (SuppliedCredentialsFiles = Files(<<>>) /\ pc = "merge") =>
               credentialsSections = NewSections
        /\ (configFiles = <<>> /\ credentialsFiles = <<>> /\ pc \in {"done", "loaded"}) =>
               result.err = SharedConfigProfileNotExistError(profile)

\* Both lists are empty in the options, no profile is named, and the lookup
\* of `default` has ended with the profile-not-found error.
C25_Witness ==
    /\ ProfileCalled
    /\ options.SharedConfigFiles = Files(<<>>)
    /\ options.SharedCredentialsFiles = Files(<<>>)
    /\ environ["CYBR_CONFIG_FILE"] # <<>>
    /\ profile = DefaultSharedConfigProfile
    /\ pc = "loaded"
    /\ configFiles = <<>>
    /\ result.err = SharedConfigProfileNotExistError(DefaultSharedConfigProfile)

\* No source supplies a list of either category and the default files are loaded.
C25_WitnessDefault ==
    /\ ProfileCalled
    /\ SuppliedConfigFiles = NilFiles
    /\ SuppliedCredentialsFiles = NilFiles
    /\ configFiles = DefaultSharedConfigFiles
    /\ credentialsFiles = DefaultSharedCredentialsFiles
    /\ pc = "loaded"
    /\ result.err = NoErr

\* --------------------------------------------------------------- C22
\* The first value of a list that is not empty, or the empty value.
RECURSIVE FirstSet(_)
FirstSet(values) ==
    IF values = <<>> THEN <<>>
    ELSE IF Head(values) # <<>> THEN Head(values)
    ELSE FirstSet(Tail(values))

\* LoadDefaultConfig has returned a configuration.
ReturnedConfig == ppc = "returned" /\ out.err = NoErr

\* The record of the profile that the loader gave to LoadDefaultConfig.
ResolvedProfile == loaded.cfg[1]

\* C22: the Domain of the configuration that LoadDefaultConfig returns is
\* the first value that is not empty among that of the options, that of
\* the environment and that of the resolved shared-config profile, in this
\* order, and the SubDomain likewise: an empty value of the options counts
\* as not set, and a value of the files never replaces one of the options
\* or of the environment.
C22_FirstSetSourceWins ==
    ReturnedConfig =>
        /\ out.cfg.Domain =
               FirstSet(<<options.Domain, environ["CYBR_DOMAIN"],
                          environ["CYBR_DEFAULT_DOMAIN"], ResolvedProfile.Domain>>)
        /\ out.cfg.SubDomain =
               FirstSet(<<options.Subdomain, environ["CYBR_SUBDOMAIN"],
                          environ["CYBR_DEFAULT_SUBDOMAIN"], ResolvedProfile.Subdomain>>)

\* The options and the environment set no domain and the domain is that of
\* the profile, while the options set a subdomain that the subdomain of the
\* profile does not replace.
C22_Witness ==
    /\ ReturnedConfig
    /\ options.Domain = <<>>
    /\ environ["CYBR_DOMAIN"] = <<>>
    /\ environ["CYBR_DEFAULT_DOMAIN"] = <<>>
    /\ ResolvedProfile.Domain # <<>>
    /\ out.cfg.Domain = ResolvedProfile.Domain
    /\ options.Subdomain # <<>>
    /\ environ["CYBR_SUBDOMAIN"] # <<>>
    /\ ResolvedProfile.Subdomain # <<>>
    /\ out.cfg.SubDomain = options.Subdomain

\* --------------------------------------------------------------- C21
\* The credentials that the username and the password variables of the
\* environment make up.
EnvironmentCredentials ==
    [Username |-> environ["CYBR_USERNAME"], Password |-> environ["CYBR_PASSWORD"],
     SessionToken |-> <<>>, Source |-> <<"EnvConfigCredentials">>]

\* C21: when the username and the password variables of the environment
\* are both set and the options set a domain (and no credentials provider
\* of their own), the configuration that LoadDefaultConfig returns has the
\* domain of the options and the credentials of the environment.
C21_EnvironmentCredentialsUsed ==
    (/\ ReturnedConfig
     /\ environ["CYBR_USERNAME"] # <<>>
     /\ environ["CYBR_PASSWORD"] # <<>>
     /\ options.Domain # <<>>
     /\ options.Credentials = <<>>) =>
        /\ out.cfg.Domain = options.Domain
        /\ out.cfg.Credentials = <<EnvironmentCredentials>>

====
